---- MODULE Spec2Model ----
(***************************************************************************)
(* A model of the control plane of ReAgentBuilder: the turn orchestrator   *)
(* (ReAgentBuilder.run / callModel / shouldContinue), the tool execution   *)
(* engine (ReAgentBuilder.executeTools), the tool registry (toolMap) and   *)
(* the interceptor pipeline (InterceptorManager).                          *)
(*                                                                         *)
(* Spec      one run of the orchestrator, with the per-call pipelines of a *)
(*           batch interleaved at their suspension points;                 *)
(* LockSpec  the InterceptorManager alone, its callers interleaved at the  *)
(*           awaits of acquireLock / waitForFreeSlot;                      *)
(* FairLockSpec  LockSpec with the fairness the event loop gives timers    *)
(*           and settled promises.                                         *)
(***************************************************************************)
EXTENDS Integers, Sequences, FiniteSets, TLC

VARIABLES
    \* ---- ReAgentBuilder (Spec)
    toolMap,        \* registry: tool name -> version registered (0: absent)
    icfg,           \* InterceptorManager's precomputed configuration flags
    bcfg,           \* BreakpointManager's precomputed configuration flags
    messages,       \* AgentState.messages, the turn state
    node,           \* the workflow node about to run: "Model", "Tools", "End"
    runStatus,      \* "running", "returned", "threw"
    modelCalls,     \* number of model invocations of this run
    batch,          \* executeTools: "idle" or "running" (tasks spawned, not joined)
    tasks,          \* executeTools: one record per valid call (toolExecutionTasks)
    allToolMessages,\* executeTools: the messages of the invalid calls
    idCounter,      \* PerformanceUtils.idCounter
    regOps,         \* registry mutations made by the environment so far
    finalState,     \* run's finalState (a message sequence), <<>> while null
    \* ---- InterceptorManager (LockSpec)
    executionLocks, \* set of [key, promise]: the map key -> task promise
    activeTasks,    \* set of keys
    callers,        \* caller id -> the state of one intercept* invocation
    \* ---- BreakpointManager (BreakSpec)
    executionQueue, \* set of keys: the keys of the map key -> breakpoint promise
    concurrentBreakpoints, \* set of keys
    breakers,       \* caller id -> the state of one break* invocation
    \* ---- ErrorHandler (ErrSpec, RetrySpec)
    errorCounts,    \* the map errorKey -> count
    lastErrors,     \* the map errorKey -> time of the last occurrence not suppressed
    now,            \* Date.now()
    errStats,       \* errorKey -> occurrences handled, logged, forwarded, suppressed
    lastHandled,    \* the last call of handleError: arguments and result
    retry,          \* the state of one call of retry
    \* ---- the registry operations of ReAgentBuilder (RegSpec)
    regLog,         \* the tools handed to addTool since the last setTool
    regView,        \* the last registry call: what it was given and what it gave
    \* ---- PerformanceMonitor counters of run, and its after-complete stage
    counters,       \* counter name -> value
    afterCompleteCalls, \* calls of the after-complete hook pipelines by run
    \* ---- the constructor of ReAgentBuilder (CtorSpec)
    ctor,           \* the last call of the constructor: its config and what it did
    perf,           \* perfMonitor: monitoring flag and the agent.created counter
    \* ---- successive runs of one agent and their checkpointers (MemSpec)
    mem,            \* config.memory and, per run, its thread, input and states
    \* ---- the occurrences of one error key over time (WinSpec)
    forwardedAt,    \* the times at which an occurrence was logged and forwarded
    \* ---- PerformanceMonitor timers of the tool calls of a batch (TimerSpec)
    timing,         \* performance.now(), the timers by name, and the calls timed
    \* ---- the agent's configuration, as far as callModel reads it
    systemPrompt,   \* config.systemPrompt, NoPrompt when it is not configured
    \* ---- what the core hooks of a run were handed, in order
    coreTrace,      \* the hook calls of callModel and of the end of run
    \* ---- what executeTools logged about the batch it returned last
    batchLog        \* calls, failed calls, error messages counted, warning logged

runVars  == <<toolMap, icfg, bcfg, messages, node, runStatus, modelCalls, batch,
              tasks, allToolMessages, idCounter, regOps, finalState>>
lockVars == <<executionLocks, activeTasks, callers>>
breakVars == <<executionQueue, concurrentBreakpoints, breakers>>
errVars  == <<errorCounts, lastErrors, now, errStats, lastHandled, retry>>
regVars  == <<regLog, regView>>
telVars  == <<counters, afterCompleteCalls, coreTrace, batchLog>>
extVars  == <<ctor, perf, mem, forwardedAt, timing, systemPrompt>>
sideVars == <<breakVars, errVars, regVars, telVars, extVars>>
vars     == <<runVars, lockVars, sideVars>>

----------------------------------------------------------------------------
(* Bounds of the model *)

MaxModelCalls == 3      \* model invocations per run
MaxToolCalls == 2       \* tool calls the model requests per run, over all its responses
MaxRegOps == 1          \* registry mutations by the environment per run

NBreakers == 3          \* concurrent break* invocations (BreakSpec)
maxConcurrentBreakpoints == 2  \* BreakpointManager's limit, a constructor argument
TimeoutTicks == 2       \* clock ticks that make up the timeout of executeBreakpoint

MaxHandled == 12        \* calls of handleError (ErrSpec)
WindowTicks == 2        \* clock ticks that make up one dedup window
MaxTicks == 3           \* clock ticks per behaviour (ErrSpec)

MaxAgents == 3          \* agents constructed per behaviour (CtorSpec)
MaxRegCalls == 3        \* addTool and setTool calls per behaviour (RegSpec)
NVersions == 2          \* distinct tool objects per name (RegSpec)
MaxRetries == 3         \* largest maxRetries passed to retry (RetrySpec)
MaxRetryRuns == 2       \* calls of retry per behaviour (RetrySpec)

NCallers == 3           \* concurrent intercept* invocations (LockSpec)
concurrencyLimit == 1   \* InterceptorManager's concurrencyLimit, a constructor argument
MaxWaitPolls == 2       \* polls of waitForFreeSlot before it gives up: the code's
                        \* maxWaitTime / checkInterval = 5000 / 50, scaled down

(* Program constants *)

checkInterval == 50     \* waitForFreeSlot: milliseconds between two polls

timeout == 2000         \* executeBreakpoint: milliseconds the race waits for the hook

maxSimilarErrors == 10  \* ErrorHandler: occurrences logged before suppression
similarErrorWindow == 60000  \* ErrorHandler: the dedup window in milliseconds

delayMs == 1000         \* retry: default of the first delay, in milliseconds
backoffMultiplier == 2  \* retry: default of the factor between two delays

defaultInterceptorConcurrency == 10  \* constructor: concurrency.interceptors || 10
defaultBreakpointConcurrency == 5    \* constructor: concurrency.breakpoints || 5

IdWrap == 999999        \* generateId wraps its counter past this value

----------------------------------------------------------------------------
(* Values.  A string is modelled as the sequence of its pieces, so that    *)
(* concatenation is \o and startsWith compares the first piece.            *)

RegisteredNames == {"calc", "search"}   \* names the registry may hold
GhostName == "ghost"                    \* a name never registered

NoId == [p |-> "", i |-> 0, n |-> 0]            \* toolCall.id absent (falsy)
GivenId(s) == [p |-> s, i |-> 0, n |-> 0]       \* an id issued by the model

NextIdCounter(c) == IF c + 1 > IdWrap THEN 1 ELSE c + 1
generateId(prefix, index, c) == [p |-> prefix, i |-> index, n |-> NextIdCounter(c)]

ToolCall(id, name, args) == [id |-> id, name |-> name, args |-> args]
UndefCall == [id |-> NoId, name |-> "<undefined>", args |-> "<undefined>"]

Undefined == <<"undefined">>            \* String(undefined)

HumanMessage(c) ==
    [type |-> "human", content |-> c, tool_calls |-> <<>>, tool_call_id |-> NoId]
SystemMessage(c) ==
    [type |-> "system", content |-> c, tool_calls |-> <<>>, tool_call_id |-> NoId]
AIMessage(c, calls) ==
    [type |-> "ai", content |-> c, tool_calls |-> calls, tool_call_id |-> NoId]
ToolMessage(c, id) ==
    [type |-> "tool", content |-> c, tool_calls |-> <<>>, tool_call_id |-> id]

startsWith(content, prefix) == Len(content) > 0 /\ content[1] = prefix

----------------------------------------------------------------------------
(* InterceptorManager: configuration flags and what each intercept* call   *)
(* returns.  The behaviour of a user hook is an input: an "outcome".       *)

InterceptorConfig(en, cb, ca, gb, ga, sb, sa) ==
    [enabled |-> en, hasCoreBeforeModel |-> cb, hasCoreAfterComplete |-> ca,
     hasGlobalBefore |-> gb, hasGlobalAfter |-> ga,
     specBefore |-> sb, specAfter |-> sa]

hasToolSpecific(cfg) == (cfg.specBefore \cup cfg.specAfter) # {}

\* InterceptorResult, and the two ill-shaped values a hook can hand back
Continue(call) ==
    [kind |-> "cont", shortCircuit |-> FALSE, modifiedInput |-> call, result |-> Undefined]
ShortCircuit(v) ==
    [kind |-> "sc", shortCircuit |-> TRUE, modifiedInput |-> UndefCall, result |-> v]
UndefResult ==
    [kind |-> "undef", shortCircuit |-> FALSE, modifiedInput |-> UndefCall, result |-> Undefined]

BeforeOutcomes == {"pass", "modify", "rename", "short", "throw", "undef", "noinput"}
AfterOutcomes  == {"pass", "rewrite", "throw"}
CoreOutcomes   == {"pass", "rewrite", "throw"}

\* a tool call a hook builds afresh: another registered name, an id and
\* arguments of its own
Renamed(call, scope) ==
    ToolCall(GivenId(scope), IF call.name = "search" THEN "calc" ELSE "search", scope)

\* what a before-tool hook hands back when it does not throw
BeforeHookValue(o, call, scope) ==
    CASE o = "pass"    -> Continue(call)
      [] o = "modify"  -> Continue([call EXCEPT !.args = scope])
      [] o = "rename"  -> Continue(Renamed(call, scope))
      [] o = "short"   -> ShortCircuit(<<"short-circuit", scope>>)
      [] o = "undef"   -> UndefResult
      [] o = "noinput" -> Continue(UndefCall)
      [] OTHER         -> Continue(call)

\* what an after-tool hook hands back when it does not throw
AfterHookValue(o, result, scope) ==
    CASE o = "pass"         -> result
      [] o = "rewrite"      -> <<"rewritten", scope>>
      [] OTHER              -> result

\* what a core hook hands back when it does not throw
CoreHookValue(o, msgs) ==
    IF o = "rewrite" THEN <<SystemMessage(<<"rewritten">>)>> \o msgs ELSE msgs

interceptsBeforeModel(cfg)   == cfg.enabled /\ cfg.hasCoreBeforeModel
interceptsAfterComplete(cfg) == cfg.enabled /\ cfg.hasCoreAfterComplete
interceptsGlobalBefore(cfg)  == cfg.enabled /\ cfg.hasGlobalBefore
interceptsGlobalAfter(cfg)   == cfg.enabled /\ cfg.hasGlobalAfter
interceptsSpecificBefore(cfg, name) ==
    cfg.enabled /\ hasToolSpecific(cfg) /\ name \in cfg.specBefore
interceptsSpecificAfter(cfg, name) ==
    cfg.enabled /\ hasToolSpecific(cfg) /\ name \in cfg.specAfter

interceptBeforeModelInvoke(cfg, msgs, o) ==
    IF ~interceptsBeforeModel(cfg) THEN msgs
    ELSE IF o = "throw" THEN msgs ELSE CoreHookValue(o, msgs)

interceptAfterAgentComplete(cfg, state, o) ==
    IF ~interceptsAfterComplete(cfg) THEN state
    ELSE IF o = "throw" THEN state ELSE CoreHookValue(o, state)

interceptBeforeToolCall(cfg, toolCall, o) ==
    IF ~interceptsGlobalBefore(cfg) THEN Continue(toolCall)
    ELSE IF o = "throw" THEN Continue(toolCall)
    ELSE BeforeHookValue(o, toolCall, "global")

interceptAfterToolCall(cfg, result, toolCall, o) ==
    IF ~interceptsGlobalAfter(cfg) THEN result
    ELSE IF o = "throw" THEN result
    ELSE AfterHookValue(o, result, "global")

\* toolCall.name of an undefined toolCall raises a TypeError in the caller
interceptSpecificToolCallRaises(cfg, toolCall) ==
    cfg.enabled /\ hasToolSpecific(cfg) /\ toolCall = UndefCall

interceptSpecificToolCall(cfg, toolCall, o) ==
    IF ~interceptsSpecificBefore(cfg, toolCall.name) THEN Continue(toolCall)
    ELSE IF o = "throw" THEN Continue(toolCall)
    ELSE BeforeHookValue(o, toolCall, "specific")

interceptSpecificToolResult(cfg, result, toolCall, o) ==
    IF ~interceptsSpecificAfter(cfg, toolCall.name) THEN result
    ELSE IF o = "throw" THEN result
    ELSE AfterHookValue(o, result, "specific")

----------------------------------------------------------------------------
(* BreakpointManager, as the engine sees it: a break* call returns nothing *)
(* and never raises; it runs the hook when enabled and registered.         *)

BreakpointConfig(en, cb, ca, mb, ma, gb, ga, sb, sa) ==
    [enabled |-> en, hasCoreBeforeModel |-> cb, hasCoreAfterComplete |-> ca,
     hasModelBefore |-> mb, hasModelAfter |-> ma,
     hasGlobalBefore |-> gb, hasGlobalAfter |-> ga,
     specBefore |-> sb, specAfter |-> sa]

breaksCoreBeforeModel(cfg)   == cfg.enabled /\ cfg.hasCoreBeforeModel
breaksCoreAfterComplete(cfg) == cfg.enabled /\ cfg.hasCoreAfterComplete
breaksModelBefore(cfg)       == cfg.enabled /\ cfg.hasModelBefore
breaksModelAfter(cfg)        == cfg.enabled /\ cfg.hasModelAfter

breaksGlobalBefore(cfg) == cfg.enabled /\ cfg.hasGlobalBefore
breaksGlobalAfter(cfg)  == cfg.enabled /\ cfg.hasGlobalAfter
breaksSpecificBefore(cfg, name) ==
    cfg.enabled /\ (cfg.specBefore \cup cfg.specAfter) # {} /\ name \in cfg.specBefore
breaksSpecificAfter(cfg, name) ==
    cfg.enabled /\ (cfg.specBefore \cup cfg.specAfter) # {} /\ name \in cfg.specAfter

----------------------------------------------------------------------------
(* The inputs of a run: the registry, the hook configurations, and what    *)
(* the model answers.                                                      *)

\* hooks at every point, the tool-specific ones for "search" only
IOff == InterceptorConfig(FALSE, TRUE, TRUE, TRUE, TRUE, {"search"}, {"search"})
IAll == InterceptorConfig(TRUE, TRUE, TRUE, TRUE, TRUE, {"search"}, {"search"})
BOff == BreakpointConfig(FALSE, TRUE, TRUE, TRUE, TRUE, TRUE, TRUE, {"search"}, {"search"})
BAll == BreakpointConfig(TRUE, TRUE, TRUE, TRUE, TRUE, TRUE, TRUE, {"search"}, {"search"})
HookConfigs == { <<IOff, BOff>>, <<IAll, BAll>> }

Registry(names) == [n \in RegisteredNames |-> IF n \in names THEN 1 ELSE 0]
has(map, name) == name \in DOMAIN map /\ map[name] # 0

c1 == ToolCall(GivenId("c1"), "calc", "a0")
c2 == ToolCall(GivenId("c2"), "calc", "a0")
cS == ToolCall(GivenId("c3"), "search", "a0")
cG == ToolCall(GivenId("c4"), GhostName, "a0")
cN == ToolCall(NoId, "calc", "a0")

\* the tool-call lists a model response may carry
Batches == { <<c1>>, <<c1, c2>>, <<cS>>, <<cG>>, <<cG, cS>>, <<cN>> }

Responses ==
    {AIMessage(<<"final answer">>, <<>>)}
        \cup {AIMessage(<<"calling tools">>, b) : b \in Batches}

UserInput == <<HumanMessage(<<"Calculate 2 + 2">>)>>

----------------------------------------------------------------------------
(* ReAgentBuilder.shouldContinue and the workflow's edges *)

Last(seq) == seq[Len(seq)]

\* mutant: the edge ignores whether the response carries tool calls
shouldContinue_AlwaysTools(msgs) == "Tools"

shouldContinue(msgs) ==
    IF Len(msgs) > 0 /\ Last(msgs).type = "ai" /\ Len(Last(msgs).tool_calls) > 0
    THEN "Tools" ELSE "End"

----------------------------------------------------------------------------
(* ReAgentBuilder.executeTools: per-call task records *)

StageOrder == <<"gbi", "gbb", "sbi", "sbb", "resolve", "sai", "sab", "gai", "gab", "emit">>

\* mutant: the tool-specific-before breakpoint runs before its interceptor
after_BreakFirst(stage) ==
    CASE stage = "gbi" -> "gbb"
      [] stage = "gbb" -> "sbb"
      [] stage = "sbb" -> "sbi"
      [] stage = "sbi" -> "resolve"
      [] stage = "resolve" -> "sai"
      [] stage = "sai" -> "sab"
      [] stage = "sab" -> "gai"
      [] stage = "gai" -> "gab"
      [] OTHER -> "done"

\* the stage a task runs once `stage` has returned
after(stage) ==
    CASE stage = "gbi" -> "gbb"
      [] stage = "gbb" -> "sbi"
      [] stage = "sbi" -> "sbb"
      [] stage = "sbb" -> "resolve"
      [] stage = "resolve" -> "sai"
      [] stage = "sai" -> "sab"
      [] stage = "sab" -> "gai"
      [] stage = "gai" -> "gab"
      [] OTHER -> "done"

NoMessage == [type |-> "none", content |-> <<>>, tool_calls |-> <<>>, tool_call_id |-> NoId]

NewTask(call, pos, index, execId) ==
    [ call |-> call,            \* the toolCall of the model's response
      pos |-> pos,              \* its position in toolCalls
      index |-> index,          \* its index in validToolCalls
      executionId |-> execId,
      pc |-> "gbi",             \* the stage about to run, or "done"
      global |-> UndefResult,   \* globalInterceptResult
      final |-> UndefResult,    \* finalInterceptResult
      result |-> Undefined,     \* result / specificProcessedResult / finalResult
      shortCircuited |-> "no",  \* which before stage short-circuited: "no", "global", "specific"
      message |-> NoMessage,    \* the ToolMessage the task resolved to
      trace |-> <<>>,           \* stages run so far, in order
      keys |-> <<>>,            \* per hook stage past its fast path: the id in its key
                                \* and the id of the call handed to the hook
      invoked |-> 0,            \* real tool invocations
      invokedArgs |-> "",       \* args of the last real invocation
      invokedName |-> "",       \* registry name of the tool last invoked
      successes |-> 0,          \* recordToolExecution(name, duration, true) calls
      failures |-> 0,           \* recordToolExecution(name, duration, false) calls
      iHooks |-> 0,             \* interceptor hooks run
      bHooks |-> 0,             \* breakpoint hooks run
      hookThrew |-> FALSE,      \* some hook of this call threw
      failed |-> FALSE ]        \* the catch block ran

ErrorContent(name, why) == <<"Error executing tool", name, why>>

\* mutant: the catch block swallows the failure and resolves to no message
Caught_NoMessage(t, why) ==
    [t EXCEPT !.pc = "done", !.failed = TRUE, !.failures = @ + 1,
              !.global = UndefResult, !.result = Undefined]

\* mutant: the failure is recorded and the after stage runs all the same
Caught_RunsAfterStage(t, why) ==
    [t EXCEPT !.pc = "sai", !.failed = TRUE, !.failures = @ + 1,
              !.global = UndefResult, !.result = Undefined,
              !.message = ToolMessage(ErrorContent(t.call.name, why), t.executionId)]

\* the catch block of the per-call task
Caught(t, why) ==
    [t EXCEPT !.pc = "done", !.failed = TRUE, !.failures = @ + 1,
              !.global = UndefResult, !.result = Undefined,
              !.message = ToolMessage(ErrorContent(t.call.name, why), t.executionId)]

Cnt(b) == IF b THEN 1 ELSE 0

\* mutant: every call is scheduled, whether the registry holds its name or not
validPositions_All(toolCalls, map) == 1..Len(toolCalls)

\* the positions of toolCalls whose name the registry holds / does not hold
validPositions(toolCalls, map) ==
    {i \in 1..Len(toolCalls) : has(map, toolCalls[i].name)}
invalidPositions(toolCalls, map) ==
    {i \in 1..Len(toolCalls) : ~has(map, toolCalls[i].name)}

\* the elements of seq at the positions in S, in order
RECURSIVE SubSeqAt(_, _, _)
SubSeqAt(seq, S, i) ==
    IF i > Len(seq) THEN <<>>
    ELSE (IF i \in S THEN <<i>> ELSE <<>>) \o SubSeqAt(seq, S, i + 1)

\* executionId of the k-th listed call, ids generated in order from counter c
RECURSIVE IdsFrom(_, _, _, _, _)
IdsFrom(toolCalls, poss, k, prefix, c) ==
    IF k > Len(poss) THEN <<>>
    ELSE LET call == toolCalls[poss[k]]
             gen  == call.id = NoId
             id   == IF gen THEN generateId(prefix, k - 1, c) ELSE call.id
             c2n  == IF gen THEN NextIdCounter(c) ELSE c
         IN  <<[id |-> id, c |-> c2n]>> \o IdsFrom(toolCalls, poss, k + 1, prefix, c2n)

CounterAfter(ids, c) == IF Len(ids) = 0 THEN c ELSE ids[Len(ids)].c

UnknownContent(name) == <<"Unknown tool: ", name>>

----------------------------------------------------------------------------
(* Spec: one run.  Hooks and tools throw Error instances or other values   *)
(* that String() accepts, so the catch blocks themselves do not raise and  *)
(* every per-call task promise is fulfilled.                               *)

\* the managers as constructed, before any invocation
NoView == [op |-> "none", given |-> <<>>, result |-> <<>>, raised |-> FALSE, warned |-> "no"]
RegIdle   == regLog = <<>> /\ regView = NoView
RunCounters == {"agent.runs", "agent.run.success", "agent.run.failure"}
\* executeTools has not returned yet
NoBatchLog == [total |-> 0, failed |-> 0, errors |-> 0, warned |-> FALSE]
\* no core hook has been called yet
NoCoreTrace == [model |-> <<>>, after |-> <<>>]
\* run has been entered: incrementCounter('agent.runs')
TelIdle   == /\ counters = [c \in RunCounters |-> IF c = "agent.runs" THEN 1 ELSE 0]
             /\ afterCompleteCalls = 0
             /\ coreTrace = NoCoreTrace
             /\ batchLog = NoBatchLog
\* no ReAgentBuilder constructed yet in this process
NoCtor == [pc |-> "none", cfg |-> <<>>, error |-> <<>>, interceptorManager |-> FALSE,
           breakpointManager |-> FALSE, limits |-> <<>>, llm |-> FALSE, tools |-> FALSE,
           workflow |-> FALSE, perfBefore |-> <<>>]
PerfIdle == [monitoring |-> FALSE, created |-> 0]
\* no timer has been started
NoTiming == [clock |-> 0, timers |-> <<>>, calls |-> <<>>]
\* no agent has run yet
NoMem == [memory |-> FALSE, runs |-> <<>>]
\* config.systemPrompt absent, and the prompts an agent may be configured with
NoPrompt == <<>>
SystemPrompts == {NoPrompt, <<"You are a helpful agent">>}
ExtIdle   == /\ ctor = NoCtor /\ perf = PerfIdle /\ mem = NoMem /\ forwardedAt = <<>>
             /\ timing = NoTiming /\ systemPrompt = NoPrompt
LockIdle  == executionLocks = {} /\ activeTasks = {} /\ callers = <<>>
BreakIdle == executionQueue = {} /\ concurrentBreakpoints = {} /\ breakers = <<>>
ErrIdle   == /\ errorCounts = <<>> /\ lastErrors = <<>> /\ now = 0
             /\ errStats = <<>> /\ lastHandled = <<>> /\ retry = <<>>

Init ==
    /\ toolMap = Registry(RegisteredNames)
    /\ \E hc \in HookConfigs : icfg = hc[1] /\ bcfg = hc[2]
    /\ messages = UserInput
    /\ node = "Model"
    /\ runStatus = "running"
    /\ modelCalls = 0
    /\ batch = "idle"
    /\ tasks = <<>>
    /\ allToolMessages = <<>>
    /\ idCounter = 0
    /\ regOps = 0
    /\ finalState = <<>>
    /\ LockIdle
    /\ BreakIdle
    /\ ErrIdle
    /\ RegIdle
    /\ TelIdle
    /\ ctor = NoCtor /\ perf = PerfIdle /\ mem = NoMem /\ forwardedAt = <<>>
    /\ timing = NoTiming
    /\ systemPrompt \in SystemPrompts

\* tool calls requested by the responses in msgs
RECURSIVE toolCallsSoFar(_)
toolCallsSoFar(msgs) ==
    IF Len(msgs) = 0 THEN 0
    ELSE Len(msgs[1].tool_calls) + toolCallsSoFar(Tail(msgs))

\* mutant: a reducer that drops the messages the state already holds
messagesReducer_Dedup(x, y) ==
    x \o SelectSeq(y, LAMBDA msg : \A k \in 1..Len(x) : x[k] # msg)

\* AgentState.messages: reducer (x, y) => x.concat(y)
messagesReducer(x, y) == x \o y

\* one call of a core hook, or of the model: what it was handed, what it gave
\* back, and the agent state at the time of the call
HookEvent(hook, saw, gave, state) ==
    [hook |-> hook, saw |-> saw, gave |-> gave, state |-> state]
When(cond, ev) == IF cond THEN <<ev>> ELSE <<>>
KeyedHooks ==
    {"model.beforeCall", "interceptBeforeModelInvoke", "core.beforeModelInvoke",
     "model.afterCall", "interceptAfterAgentComplete", "core.afterAgentComplete"}
\* the core hooks that ran: each draws its key from perfUtils.generateId
Draws(tr) == Cardinality({k \in 1..Len(tr) : tr[k].hook \in KeyedHooks})
RECURSIVE AdvanceCounter(_, _)
AdvanceCounter(c, n) == IF n = 0 THEN c ELSE AdvanceCounter(NextIdCounter(c), n - 1)

\* messages.some(msg => msg.getType() === 'system')
hasSystemMessage(msgs) == \E k \in 1..Len(msgs) : msgs[k].type = "system"

\* callModel's local copy of the messages, with the system prompt put first
\* when one is configured and the state holds no system message
withSystemPrompt(prompt, msgs) ==
    IF prompt # NoPrompt /\ ~hasSystemMessage(msgs)
    THEN <<SystemMessage(prompt)>> \o msgs
    ELSE msgs

\* mutant: callModel hands the whole sequence it sent back to the reducer
callModelUpdate_SentMessages(finalMessages, response) == finalMessages \o <<response>>

\* return { messages: [response] }
callModelUpdate(finalMessages, response) == <<response>>

\* mutant: the core breakpoint placed ahead of the interceptor
callModelTrace_BreakFirst(ic, bc, state, msgs, finalMessages, response, thrown) ==
    When(breaksModelBefore(bc), HookEvent("model.beforeCall", state, <<>>, state))
    \o When(breaksCoreBeforeModel(bc),
            HookEvent("core.beforeModelInvoke", msgs, <<>>, state))
    \o When(interceptsBeforeModel(ic),
            HookEvent("interceptBeforeModelInvoke", msgs, finalMessages, state))
    \o <<HookEvent("invoke", finalMessages,
                   IF thrown THEN <<>> ELSE <<response>>, state)>>
    \o When(~thrown /\ breaksModelAfter(bc),
            HookEvent("model.afterCall", <<response>>, <<>>, state))

\* callModel: the hooks that run and the invocation of the model, in order
callModelTrace(ic, bc, state, msgs, finalMessages, response, thrown) ==
    When(breaksModelBefore(bc), HookEvent("model.beforeCall", state, <<>>, state))
    \o When(interceptsBeforeModel(ic),
            HookEvent("interceptBeforeModelInvoke", msgs, finalMessages, state))
    \o When(breaksCoreBeforeModel(bc),
            HookEvent("core.beforeModelInvoke", finalMessages, <<>>, state))
    \o <<HookEvent("invoke", finalMessages,
                   IF thrown THEN <<>> ELSE <<response>>, state)>>
    \o When(~thrown /\ breaksModelAfter(bc),
            HookEvent("model.afterCall", <<response>>, <<>>, state))

\* callModel, and the conditional edge out of the agent node
CallModel ==
    /\ runStatus = "running" /\ node = "Model" /\ modelCalls < MaxModelCalls
    /\ modelCalls' = modelCalls + 1
    /\ \E o \in CoreOutcomes, invokeThrows \in BOOLEAN, response \in Responses :
         LET msgs == withSystemPrompt(systemPrompt, messages)
             finalMessages == interceptBeforeModelInvoke(icfg, msgs, o)
             trace == callModelTrace(icfg, bcfg, messages, msgs, finalMessages, response,
                                     invokeThrows)
         IN  /\ toolCallsSoFar(messages) + Len(response.tool_calls) <= MaxToolCalls
             /\ coreTrace' = [coreTrace EXCEPT !.model = trace]
             /\ idCounter' = AdvanceCounter(idCounter, Draws(trace))
             /\ IF invokeThrows
                THEN /\ runStatus' = "threw"
                     /\ UNCHANGED <<messages, node>>
                ELSE /\ messages' = messagesReducer(messages,
                                                     callModelUpdate(finalMessages, response))
                     /\ node' = shouldContinue(messages')
                     /\ UNCHANGED runStatus
    /\ UNCHANGED <<toolMap, icfg, bcfg, batch, tasks, allToolMessages, regOps,
                   finalState, counters, afterCompleteCalls, batchLog, lockVars,
                   breakVars, errVars, regVars, extVars>>

\* mutant: Promise.all, which settles as soon as one task has failed
allSettled_FailFast(ts) ==
    \/ \A i \in 1..Len(ts) : ts[i].pc = "done"
    \/ \E i \in 1..Len(ts) : ts[i].pc = "done" /\ ts[i].failed

\* Promise.allSettled(toolExecutionTasks) has resolved
allSettled(ts) == \A i \in 1..Len(ts) : ts[i].pc = "done"

\* executeTools up to the first suspension: partition, the messages of the
\* invalid calls, and the tasks of the valid ones
StartBatch ==
    /\ runStatus = "running" /\ node = "Tools" /\ batch = "idle"
    /\ LET toolCalls == Last(messages).tool_calls
           valid     == SubSeqAt(toolCalls, validPositions(toolCalls, toolMap), 1)
           invalid   == SubSeqAt(toolCalls, invalidPositions(toolCalls, toolMap), 1)
           invIds    == IdsFrom(toolCalls, invalid, 1, "invalid", idCounter)
           cAfterInv == CounterAfter(invIds, idCounter)
           execIds   == IdsFrom(toolCalls, valid, 1, "exec", cAfterInv)
           invMsgs   == [k \in 1..Len(invalid) |->
                           ToolMessage(UnknownContent(toolCalls[invalid[k]].name),
                                       invIds[k].id)]
       IN  IF Len(toolCalls) = 0
           THEN /\ node' = "Model"
                /\ UNCHANGED <<messages, batch, tasks, allToolMessages, idCounter,
                               batchLog>>
           ELSE IF Len(valid) = 0
           THEN /\ messages' = messages \o invMsgs
                /\ node' = "Model"
                /\ allToolMessages' = <<>>
                /\ tasks' = <<>>
                /\ idCounter' = cAfterInv
                /\ batchLog' = [total |-> Len(toolCalls), failed |-> Len(invalid),
                                errors |-> 0, warned |-> FALSE]
                /\ UNCHANGED batch
           ELSE /\ allToolMessages' = invMsgs
                /\ tasks' = [k \in 1..Len(valid) |->
                               NewTask(toolCalls[valid[k]], valid[k], k - 1, execIds[k].id)]
                /\ idCounter' = CounterAfter(execIds, cAfterInv)
                /\ batch' = "running"
                /\ UNCHANGED <<messages, node, batchLog>>
    /\ UNCHANGED <<toolMap, icfg, bcfg, runStatus, modelCalls, regOps,
                   finalState, lockVars, breakVars, errVars, regVars, counters,
                   afterCompleteCalls, coreTrace, extVars>>

\* `${toolCall.id || perfUtils.generateId('tool')}`, the tail of a stage's key
stageKeyId(call, c) == IF call.id # NoId THEN call.id ELSE generateId("tool", 0, c)

\* a stage whose hook is enabled and registered builds its key
Keyed(t, stage, reg, call, c) ==
    IF reg
    THEN [t EXCEPT !.keys = Append(@, [stage |-> stage, key |-> stageKeyId(call, c),
                                       seen |-> call.id, name |-> call.name])]
    ELSE t

counterAfterKey(reg, call, c) == IF reg /\ call.id = NoId THEN NextIdCounter(c) ELSE c

HookStageFrame ==
    UNCHANGED <<toolMap, icfg, bcfg, messages, node, runStatus, modelCalls, batch,
                allToolMessages, regOps, finalState, lockVars, sideVars>>

StageFrame ==
    UNCHANGED <<toolMap, icfg, bcfg, messages, node, runStatus, modelCalls, batch,
                allToolMessages, idCounter, regOps, finalState, lockVars, sideVars>>

AtStage(i, stage) ==
    /\ runStatus = "running" /\ batch = "running"
    /\ i \in 1..Len(tasks) /\ tasks[i].pc = stage

Ran(t, stage) == [t EXCEPT !.trace = Append(t.trace, stage)]

\* global-before interceptor
GlobalBeforeIntercept(i) ==
    /\ AtStage(i, "gbi")
    /\ \E o \in BeforeOutcomes :
         LET t   == tasks[i]
             reg == interceptsGlobalBefore(icfg)
             t2  == [Ran(t, "gbi") EXCEPT
                       !.global = interceptBeforeToolCall(icfg, t.call, o),
                       !.iHooks = @ + Cnt(reg),
                       !.hookThrew = @ \/ (reg /\ o = "throw"),
                       !.pc = after("gbi")]
         IN  /\ tasks' = [tasks EXCEPT ![i] = Keyed(t2, "gbi", reg, t.call, idCounter)]
             /\ idCounter' = counterAfterKey(reg, t.call, idCounter)
    /\ HookStageFrame

\* global-before breakpoint
GlobalBeforeBreak(i) ==
    /\ AtStage(i, "gbb")
    /\   LET t   == tasks[i]
             reg == breaksGlobalBefore(bcfg)
             t2  == [Ran(t, "gbb") EXCEPT
                       !.bHooks = @ + Cnt(reg),
                       !.pc = after("gbb")]
         IN  /\ tasks' = [tasks EXCEPT ![i] = Keyed(t2, "gbb", reg, t.call, idCounter)]
             /\ idCounter' = counterAfterKey(reg, t.call, idCounter)
    /\ HookStageFrame

\* tool-specific-before interceptor, only if the global stage did not short-circuit
SpecificBeforeIntercept(i) ==
    /\ AtStage(i, "sbi")
    /\ \E o \in BeforeOutcomes :
         LET t   == tasks[i]
             g   == t.global
             in  == g.modifiedInput
             reg == interceptsSpecificBefore(icfg, in.name)
             t2  == IF g.kind = "undef" THEN Caught(t, "TypeError")
                    ELSE IF g.shortCircuit
                         THEN [t EXCEPT !.final = g, !.shortCircuited = "global", !.pc = after("sbi")]
                    ELSE IF interceptSpecificToolCallRaises(icfg, in)
                         THEN Caught(Ran(t, "sbi"), "TypeError")
                    ELSE [Ran(t, "sbi") EXCEPT
                            !.final = interceptSpecificToolCall(icfg, in, o),
                            !.shortCircuited =
                                IF interceptSpecificToolCall(icfg, in, o).shortCircuit
                                THEN "specific" ELSE "no",
                            !.iHooks = @ + Cnt(reg),
                            !.hookThrew = @ \/ (reg /\ o = "throw"),
                            !.pc = after("sbi")]
         IN  /\ tasks' = [tasks EXCEPT ![i] = Keyed(t2, "sbi", reg, in, idCounter)]
             /\ idCounter' = counterAfterKey(reg, in, idCounter)
    /\ HookStageFrame

\* tool-specific-before breakpoint
SpecificBeforeBreak(i) ==
    /\ AtStage(i, "sbb")
    /\   LET t   == tasks[i]
             reg == breaksSpecificBefore(bcfg, t.call.name)
             t2  == [Ran(t, "sbb") EXCEPT
                       !.bHooks = @ + Cnt(reg),
                       !.pc = after("sbb")]
         IN  /\ tasks' = [tasks EXCEPT ![i] = Keyed(t2, "sbb", reg, t.call, idCounter)]
             /\ idCounter' = counterAfterKey(reg, t.call, idCounter)
    /\ HookStageFrame

ToolOutcomes == {"ok", "throw"}

\* mutant: the short-circuit flag is ignored and the real tool runs anyway
useShortCircuit_Never(f) == FALSE

\* if (finalInterceptResult.shortCircuit)
useShortCircuit(f) == f.shortCircuit
ToolResult(name, version, args) == <<"result of", name, args>>

\* mutant: the tool is looked up under the name of the modified call
toolLookupName_Modified(toolCall, modifiedToolCall) == modifiedToolCall.name

\* this.toolMap.get(toolCall.name)
toolLookupName(toolCall, modifiedToolCall) == toolCall.name

\* result resolution: the short-circuit result, or the real tool
Resolve(i) ==
    /\ AtStage(i, "resolve")
    /\ \E o \in ToolOutcomes :
         LET t   == tasks[i]
             f   == t.final
             in  == f.modifiedInput
             t1  == Ran(t, "resolve")
             name == toolLookupName(t.call, in)
             t2  == IF f.kind = "undef" THEN Caught(t1, "TypeError")
                    ELSE IF useShortCircuit(f)
                         THEN [t1 EXCEPT !.result = f.result, !.pc = after("resolve")]
                    ELSE IF ~has(toolMap, name) THEN Caught(t1, "TypeError")
                    ELSE IF in = UndefCall THEN Caught(t1, "TypeError")
                    ELSE LET t3 == [t1 EXCEPT !.invoked = @ + 1, !.invokedArgs = in.args,
                                              !.invokedName = name]
                             r  == ToolResult(name, toolMap[name], in.args)
                         IN  IF o = "throw" THEN Caught(t3, "tool failed")
                             ELSE [t3 EXCEPT !.result = r, !.pc = after("resolve")]
         IN  tasks' = [tasks EXCEPT ![i] = t2]
    /\ StageFrame

\* tool-specific-after interceptor
SpecificAfterIntercept(i) ==
    /\ AtStage(i, "sai")
    /\ \E o \in AfterOutcomes :
         LET t   == tasks[i]
             reg == interceptsSpecificAfter(icfg, t.call.name)
             t2  == [Ran(t, "sai") EXCEPT
                       !.result = interceptSpecificToolResult(icfg, t.result, t.call, o),
                       !.global = UndefResult,
                       !.iHooks = @ + Cnt(reg),
                       !.hookThrew = @ \/ (reg /\ o = "throw"),
                       !.pc = after("sai")]
         IN  /\ tasks' = [tasks EXCEPT ![i] = Keyed(t2, "sai", reg, t.call, idCounter)]
             /\ idCounter' = counterAfterKey(reg, t.call, idCounter)
    /\ HookStageFrame

\* tool-specific-after breakpoint
SpecificAfterBreak(i) ==
    /\ AtStage(i, "sab")
    /\   LET t   == tasks[i]
             reg == breaksSpecificAfter(bcfg, t.call.name)
             t2  == [Ran(t, "sab") EXCEPT
                       !.bHooks = @ + Cnt(reg),
                       !.pc = after("sab")]
         IN  /\ tasks' = [tasks EXCEPT ![i] = Keyed(t2, "sab", reg, t.call, idCounter)]
             /\ idCounter' = counterAfterKey(reg, t.call, idCounter)
    /\ HookStageFrame

\* global-after interceptor
GlobalAfterIntercept(i) ==
    /\ AtStage(i, "gai")
    /\ \E o \in AfterOutcomes :
         LET t   == tasks[i]
             reg == interceptsGlobalAfter(icfg)
             t2  == [Ran(t, "gai") EXCEPT
                       !.result = interceptAfterToolCall(icfg, t.result, t.call, o),
                       !.iHooks = @ + Cnt(reg),
                       !.hookThrew = @ \/ (reg /\ o = "throw"),
                       !.pc = after("gai")]
         IN  /\ tasks' = [tasks EXCEPT ![i] = Keyed(t2, "gai", reg, t.call, idCounter)]
             /\ idCounter' = counterAfterKey(reg, t.call, idCounter)
    /\ HookStageFrame

\* global-after breakpoint, then the emission of the result message
GlobalAfterBreak(i) ==
    /\ AtStage(i, "gab")
    /\   LET t   == tasks[i]
             reg == breaksGlobalAfter(bcfg)
             t2  == [Ran(Ran(t, "gab"), "emit") EXCEPT
                       !.bHooks = @ + Cnt(reg),
                       !.successes = @ + 1,
                       !.message = ToolMessage(t.result, t.executionId),
                       !.pc = after("gab")]
         IN  /\ tasks' = [tasks EXCEPT ![i] = Keyed(t2, "gab", reg, t.call, idCounter)]
             /\ idCounter' = counterAfterKey(reg, t.call, idCounter)
    /\ HookStageFrame

\* mutant: the messages of the invalid calls are left out of the result
toolMessages_ValidOnly(invMsgs, ts) == [k \in 1..Len(ts) |-> ts[k].message]

\* the messages executeTools returns once every task has settled
toolMessages(invMsgs, ts) == invMsgs \o [k \in 1..Len(ts) |-> ts[k].message]

\* the messages executeTools counts as errors: those of the unknown calls and
\* those of the tasks whose content begins with 'Error executing tool'
errorMessages(invMsgs, ts) ==
    Cardinality({k \in 1..Len(invMsgs) : startsWith(invMsgs[k].content, "Unknown tool: ")})
    + Cardinality({k \in 1..Len(ts) :
                     startsWith(ts[k].message.content, "Error executing tool")})

\* mutant: the warning at one half of the batch already
tooManyErrors_AtHalf(errors, totalTools) == errors >= totalTools \div 2

\* errorMessages.length > Math.floor(totalTools / 2)
tooManyErrors(errors, totalTools) == errors > totalTools \div 2

JoinBatch ==
    /\ runStatus = "running" /\ node = "Tools" /\ batch = "running"
    /\ allSettled(tasks)
    /\ messages' = messagesReducer(messages, toolMessages(allToolMessages, tasks))
    /\ LET totalTools == Len(allToolMessages) + Len(tasks)
           errors     == errorMessages(allToolMessages, tasks)
       IN  batchLog' = [total  |-> totalTools,
                        failed |-> Len(allToolMessages)
                                   + Cardinality({k \in 1..Len(tasks) : tasks[k].failed}),
                        errors |-> errors,
                        warned |-> tooManyErrors(errors, totalTools)]
    /\ node' = "Model"
    /\ batch' = "idle"
    /\ tasks' = <<>>
    /\ allToolMessages' = <<>>
    /\ UNCHANGED <<toolMap, icfg, bcfg, runStatus, modelCalls,
                   idCounter, regOps, finalState, lockVars, breakVars, errVars,
                   regVars, counters, afterCompleteCalls, coreTrace, extVars>>

NullState == <<>>

\* run: the counter incremented once the stream has ended
runCounter(final) ==
    IF final # NullState THEN "agent.run.success" ELSE "agent.run.failure"

\* mutant: the breakpoint handed the state of the stream, not the interceptor's
afterCompleteTrace_BreakSeesStream(ic, bc, state, final) ==
    When(interceptsAfterComplete(ic),
         HookEvent("interceptAfterAgentComplete", state, final, state))
    \o When(breaksCoreAfterComplete(bc),
            HookEvent("core.afterAgentComplete", state, <<>>, state))

\* run, if (finalState): the after-complete hooks that run, in order
afterCompleteTrace(ic, bc, state, final) ==
    When(interceptsAfterComplete(ic),
         HookEvent("interceptAfterAgentComplete", state, final, state))
    \o When(breaksCoreAfterComplete(bc),
            HookEvent("core.afterAgentComplete", final, <<>>, final))

\* run, after the stream has ended with a final state
AfterComplete ==
    /\ runStatus = "running" /\ node = "End"
    /\ \E o \in CoreOutcomes :
         LET final == interceptAfterAgentComplete(icfg, messages, o)
             trace == afterCompleteTrace(icfg, bcfg, messages, final)
         IN  /\ finalState' = final
             /\ coreTrace' = [coreTrace EXCEPT !.after = trace]
             /\ idCounter' = AdvanceCounter(idCounter, Draws(trace))
    /\ runStatus' = "returned"
    /\ counters' = [counters EXCEPT ![runCounter(messages)] = @ + 1]
    /\ afterCompleteCalls' = afterCompleteCalls + 1
    /\ UNCHANGED <<toolMap, icfg, bcfg, messages, node, modelCalls, batch, tasks,
                   allToolMessages, regOps, batchLog, lockVars, breakVars, errVars,
                   regVars, extVars>>

\* run, after the stream has ended without a chunk that is an agent state:
\* finalState is still null
NoFinalState ==
    /\ runStatus = "running" /\ node = "Model" /\ modelCalls = 0
    /\ finalState = NullState
    /\ runStatus' = "returned"
    /\ counters' = [counters EXCEPT ![runCounter(finalState)] = @ + 1]
    /\ UNCHANGED <<toolMap, icfg, bcfg, messages, node, modelCalls, batch, tasks,
                   allToolMessages, idCounter, regOps, finalState, afterCompleteCalls,
                   coreTrace, batchLog, lockVars, breakVars, errVars, regVars,
                   extVars>>

\* a StructuredTool: its name and which of the objects of that name it is
Tool(name, ver) == [name |-> name, ver |-> ver]
NamelessTool == Tool("", 1)             \* !tool.name

\* mutant: a name already registered keeps its tool
addTool_KeepsFirst(map, tool) ==
    IF has(map, tool.name) THEN map ELSE [map EXCEPT ![tool.name] = tool.ver]

\* addTool past its validation: toolMap.set(tool.name, tool)
addTool(map, tool) == [map EXCEPT ![tool.name] = tool.ver]

\* the loop of setTool: every named tool of the list is set, in order
RECURSIVE setEach(_, _)
setEach(map, tools) ==
    IF tools = <<>> THEN map
    ELSE setEach(IF Head(tools).name = "" THEN map ELSE addTool(map, Head(tools)),
                 Tail(tools))

\* mutant: setTool without toolMap.clear()
setTool_NoClear(map, tools) == setEach(map, tools)

\* setTool(tools): toolMap.clear(), then the loop
setTool(map, tools) == setEach(Registry({}), tools)

\* getTool(toolName) and getTool()
getTool(map, name) == IF has(map, name) THEN <<Tool(name, map[name])>> ELSE <<>>
getAllTools(map) == {Tool(n, map[n]) : n \in {m \in DOMAIN map : map[m] # 0}}

\* setTool(tools), called by the environment at any suspension point
SetTool ==
    /\ runStatus = "running" /\ regOps < MaxRegOps
    /\ \E tools \in {<<>>} : toolMap' = setTool(toolMap, tools)
    /\ regOps' = regOps + 1
    /\ UNCHANGED <<icfg, bcfg, messages, node, runStatus, modelCalls, batch, tasks,
                   allToolMessages, idCounter, finalState, lockVars, sideVars>>

Stage(i) ==
    \/ GlobalBeforeIntercept(i)
    \/ GlobalBeforeBreak(i)
    \/ SpecificBeforeIntercept(i)
    \/ SpecificBeforeBreak(i)
    \/ Resolve(i)
    \/ SpecificAfterIntercept(i)
    \/ SpecificAfterBreak(i)
    \/ GlobalAfterIntercept(i)
    \/ GlobalAfterBreak(i)

Next ==
    \/ CallModel
    \/ StartBatch
    \/ \E i \in 1..2 : Stage(i)
    \/ JoinBatch
    \/ AfterComplete
    \/ NoFinalState
    \/ SetTool

Spec == Init /\ [][Next]_vars

----------------------------------------------------------------------------
(* Properties of Spec *)

IsError(m)   == m.type = "tool" /\ startsWith(m.content, "Error executing tool")
IsUnknown(m) == m.type = "tool" /\ startsWith(m.content, "Unknown tool: ")
InTrace(t, stage) == \E k \in 1..Len(t.trace) : t.trace[k] = stage
IsPrefix(a, b) == Len(a) <= Len(b) /\ \A k \in 1..Len(a) : a[k] = b[k]
StageOrderNoSbi ==
    <<"gbi", "gbb", "sbb", "resolve", "sai", "sab", "gai", "gab", "emit">>
TaskIds == 1..Len(tasks)

\* a step in which the agent node (callModel) returned
ModelStep == node = "Model" /\ Len(messages') = Len(messages) + 1
\* a step in which the tools node (executeTools) returned
ToolsStep == node = "Tools" /\ node' # "Tools"

C3_JoinBarrier ==
    /\ [][ (ToolsStep /\ batch = "running") =>
              /\ \A i \in TaskIds : tasks[i].pc = "done"
              /\ \A i \in TaskIds :
                   \E k \in Len(messages) + 1 .. Len(messages') :
                       messages'[k] = tasks[i].message ]_vars
    /\ [](\A i \in TaskIds :
            (tasks[i].pc = "done" /\ ~tasks[i].failed) =>
                /\ tasks[i].trace \in {StageOrder, StageOrderNoSbi}
                /\ ~IsError(tasks[i].message))

\* one call of the batch has failed, the other has run its whole pipeline
C3_Witness ==
    /\ batch = "running" /\ Len(tasks) = 2
    /\ tasks[1].pc = "done" /\ tasks[1].failed
    /\ tasks[2].pc = "done" /\ ~tasks[2].failed /\ tasks[2].trace = StageOrder

(* C4: executeTools returns exactly one message per tool call of the       *)
(* response, and the message of a call that has an id carries that id.     *)
C4_OnePerCall ==
    [][ ToolsStep =>
          LET toolCalls == Last(messages).tool_calls
              new == SubSeq(messages', Len(messages) + 1, Len(messages'))
          IN  /\ SubSeq(messages', 1, Len(messages)) = messages
              /\ Len(new) = Len(toolCalls)
              /\ \A k \in 1..Len(new) : new[k].type = "tool"
              /\ \A p \in 1..Len(toolCalls) :
                   toolCalls[p].id # NoId =>
                     Cardinality({k \in 1..Len(new) :
                                    new[k].tool_call_id = toolCalls[p].id})
                       = Cardinality({q \in 1..Len(toolCalls) :
                                    toolCalls[q].id = toolCalls[p].id})
              /\ \A k \in 1..Len(new) :
                   \/ \E p \in 1..Len(toolCalls) : new[k].tool_call_id = toolCalls[p].id
                   \/ new[k].tool_call_id.n > 0 ]_vars

\* a returned batch that mixed an unknown call with a known one
C4_Witness ==
    /\ node = "Model" /\ Len(messages) >= 4
    /\ IsUnknown(messages[Len(messages) - 1])
    /\ Last(messages).type = "tool" /\ ~IsUnknown(Last(messages))

(* C5: the stages of a call run in the order global-before interceptor,    *)
(* global-before breakpoint, tool-specific-before interceptor and          *)
(* breakpoint, result resolution, tool-specific-after interceptor and      *)
(* breakpoint, global-after interceptor and breakpoint, emission; each     *)
(* step runs exactly the stage that follows the last one run.              *)
C5_StageOrder ==
    /\ [](\A i \in TaskIds :
            /\ \/ IsPrefix(tasks[i].trace, StageOrder)
               \/ IsPrefix(tasks[i].trace, StageOrderNoSbi)
            /\ (tasks[i].message # NoMessage /\ ~tasks[i].failed) =>
                  Last(tasks[i].trace) = "emit")
    /\ [][ \A i \in TaskIds :
             (batch = "running" /\ batch' = "running"
                /\ Len(tasks'[i].trace) > Len(tasks[i].trace)) =>
               /\ \A j \in TaskIds : j # i => tasks'[j] = tasks[j]
               /\ IsPrefix(tasks[i].trace, tasks'[i].trace) ]_vars

\* a call that ran all ten stages
C5_Witness ==
    \E i \in TaskIds : tasks[i].pc = "done" /\ tasks[i].trace = StageOrder

(* C6 as stated, read in its most favourable sense (both before stages     *)
(* have returned well-shaped results): a short-circuit result keeps the    *)
(* real tool from being invoked, and when neither before interceptor       *)
(* short-circuits the real tool is invoked exactly once.                   *)
C6_InvokedOnceUnlessShortCircuit ==
    \A i \in TaskIds :
        LET t == tasks[i] IN
        (t.pc = "done" /\ InTrace(t, "resolve") /\ t.final.kind # "undef"
           /\ (t.final.kind = "cont" => t.final.modifiedInput # UndefCall)) =>
            t.invoked = IF t.final.shortCircuit THEN 0 ELSE 1

(* C6 amended: after a short-circuit by either before interceptor the real *)
(* tool is never invoked and the supplied result is the value that enters  *)
(* the after stages; the tool-specific-before interceptor runs only when   *)
(* the global stage did not short-circuit; when neither short-circuits the *)
(* real tool is invoked at most once, and exactly once for every call that *)
(* reaches the after stages: it is not invoked when a before interceptor   *)
(* handed back an ill-shaped result or the tool is no longer registered at *)
(* invocation time, and the call then ends with an error result.           *)
C6_ShortCircuit ==
    \A i \in TaskIds :
        LET t == tasks[i] IN
        /\ t.invoked <= 1
        /\ t.shortCircuited # "no" => (t.invoked = 0 /\ ~t.failed)
        /\ (t.pc = "done" /\ t.shortCircuited # "no") => InTrace(t, "emit")
        /\ (t.pc = "sai" /\ t.shortCircuited = "global") =>
              t.result = <<"short-circuit", "global">>
        /\ (t.pc = "sai" /\ t.shortCircuited = "specific") =>
              t.result = <<"short-circuit", "specific">>
        /\ t.shortCircuited = "global" => ~InTrace(t, "sbi")
        /\ (InTrace(t, "sai") \/ t.pc = "sai") =>
              (t.shortCircuited = "no" <=> t.invoked = 1)
        /\ (t.pc = "done" /\ t.shortCircuited = "no" /\ t.invoked = 0) =>
              (t.failed /\ IsError(t.message))

\* a call short-circuited by the tool-specific interceptor has settled
C6_Witness ==
    \E i \in TaskIds :
        /\ tasks[i].pc = "done" /\ tasks[i].shortCircuited = "specific"
        /\ ~tasks[i].failed /\ InTrace(tasks[i], "sbi")

(* C7: when the batch is partitioned, every call whose name the registry   *)
(* does not hold gets exactly one message "Unknown tool: <name>" and no    *)
(* task, so that no interceptor, breakpoint or tool runs for it; every     *)
(* hook and tool invocation belongs to a task of a call that was known.    *)
C7_UnknownTool ==
    [][ (node = "Tools" /\ batch = "idle" /\ (batch' = "running" \/ node' = "Model")) =>
          LET toolCalls == Last(messages).tool_calls
              produced == IF batch' = "running" THEN allToolMessages'
                          ELSE SubSeq(messages', Len(messages) + 1, Len(messages'))
              spawned == IF batch' = "running" THEN tasks' ELSE <<>>
          IN  \A p \in 1..Len(toolCalls) :
                IF has(toolMap, toolCalls[p].name)
                THEN Cardinality({k \in 1..Len(spawned) : spawned[k].pos = p}) = 1
                ELSE /\ \A k \in 1..Len(spawned) : spawned[k].pos # p
                     /\ Cardinality({k \in 1..Len(produced) :
                            /\ produced[k].content = <<"Unknown tool: ", toolCalls[p].name>>
                            /\ produced[k].tool_call_id =
                                 IF toolCalls[p].id # NoId THEN toolCalls[p].id
                                 ELSE [p |-> "invalid", i |-> produced[k].tool_call_id.i,
                                       n |-> produced[k].tool_call_id.n]}) = 1
                     /\ Len(produced) =
                          Cardinality({q \in 1..Len(toolCalls) :
                                         ~has(toolMap, toolCalls[q].name)}) ]_vars

\* a batch with an unknown call and a known one whose hooks have run
C7_Witness ==
    /\ batch = "running" /\ Len(allToolMessages) = 1 /\ Len(tasks) = 1
    /\ IsUnknown(allToolMessages[1])
    /\ tasks[1].iHooks > 0 /\ tasks[1].bHooks > 0 /\ tasks[1].invoked = 1

----------------------------------------------------------------------------
(* LockSpec: the InterceptorManager under concurrent callers.  A caller is *)
(* one invocation of an intercept* method; it is suspended at the awaits   *)
(* of acquireLock (on the promise stored under its key, on waitForFreeSlot *)
(* and on its own task).  The promise a caller stores is named by the      *)
(* caller's id.                                                            *)

maxWaitTime == MaxWaitPolls * checkInterval

Callers == 1..NCallers
Points == {"core-before-model", "core-after-complete", "global-before-tool",
           "global-after-tool", "specific-before-tool", "specific-after-tool"}

\* the arguments a caller passes, whatever the point
CallerInput ==
    [messages |-> UserInput, toolCall |-> cS, result |-> <<"result of", "search", "a0">>]

\* mutant: the enabled flag is not looked at
hookRegistered_IgnoresEnabled(cfg, point, name) ==
    CASE point = "core-before-model"    -> cfg.hasCoreBeforeModel
      [] point = "core-after-complete"  -> cfg.hasCoreAfterComplete
      [] point = "global-before-tool"   -> cfg.hasGlobalBefore
      [] point = "global-after-tool"    -> cfg.hasGlobalAfter
      [] point = "specific-before-tool" -> name \in cfg.specBefore
      [] point = "specific-after-tool"  -> name \in cfg.specAfter

\* is a hook enabled and registered for this point and tool name
hookRegistered(cfg, point, name) ==
    CASE point = "core-before-model"    -> interceptsBeforeModel(cfg)
      [] point = "core-after-complete"  -> interceptsAfterComplete(cfg)
      [] point = "global-before-tool"   -> interceptsGlobalBefore(cfg)
      [] point = "global-after-tool"    -> interceptsGlobalAfter(cfg)
      [] point = "specific-before-tool" -> interceptsSpecificBefore(cfg, name)
      [] point = "specific-after-tool"  -> interceptsSpecificAfter(cfg, name)

\* how a hook settles under concurrent callers: it hands back a changed value
\* or it throws (the other values a hook can return are exercised by the
\* engine's stages)
PointOutcomes(point) ==
    IF point \in {"global-before-tool", "specific-before-tool"}
    THEN {"modify", "throw"} \cap BeforeOutcomes
    ELSE {"rewrite", "throw"} \cap (CoreOutcomes \cup AfterOutcomes)

\* what the intercept* method of the point returns for a hook outcome
interceptValue(cfg, point, in, o) ==
    CASE point = "core-before-model"    -> interceptBeforeModelInvoke(cfg, in.messages, o)
      [] point = "core-after-complete"  -> interceptAfterAgentComplete(cfg, in.messages, o)
      [] point = "global-before-tool"   -> interceptBeforeToolCall(cfg, in.toolCall, o)
      [] point = "global-after-tool"    -> interceptAfterToolCall(cfg, in.result, in.toolCall, o)
      [] point = "specific-before-tool" -> interceptSpecificToolCall(cfg, in.toolCall, o)
      [] point = "specific-after-tool"  -> interceptSpecificToolResult(cfg, in.result, in.toolCall, o)

\* the points whose task runs its hook inside errorHandler.wrapAsync, which
\* hands what the hook threw to handleError; the others catch and log only
wrapsAsync(point) == point = "core-before-model"

\* mutant: the task has no catch, so a throwing hook rejects the task promise
interceptTask_Rethrows(cfg, point, in, o) ==
    [raised |-> o = "throw", value |-> interceptValue(cfg, point, in, o)]

\* the task handed to acquireLock: the hook inside its try / catch
interceptTask(cfg, point, in, o) ==
    [raised |-> FALSE, value |-> interceptValue(cfg, point, in, o)]

\* mutant: the key of a tool point names the tool only
lockKey_ByName(point, toolCall, c) ==
    [point |-> point, name |-> toolCall.name, id |-> NoId]

\* lockKey: core points draw a fresh id, tool points use the call's name and id
lockKey(point, toolCall, c) ==
    IF point \in {"core-before-model", "core-after-complete"}
    THEN [point |-> point, name |-> "", id |-> generateId(point, 0, c)]
    ELSE [point |-> point, name |-> toolCall.name,
          id |-> IF toolCall.id # NoId THEN toolCall.id ELSE generateId("tool", 0, c)]

lockKeyDrawsId(point, toolCall) ==
    point \in {"core-before-model", "core-after-complete"} \/ toolCall.id = NoId

\* the Map executionLocks
locksHas(locks, k)    == \E e \in locks : e.key = k
locksGet(locks, k)    == (CHOOSE e \in locks : e.key = k).promise
locksDelete(locks, k) == {e \in locks : e.key # k}
locksSet(locks, k, c) == locksDelete(locks, k) \cup {[key |-> k, promise |-> c]}

NoKey == [point |-> "", name |-> "", id |-> NoId]
NoReturn == [raised |-> FALSE, value |-> <<>>]

IdleCaller ==
    [ pc |-> "idle",        \* idle, keyWait, slotWait, slotDone, running, done
      point |-> "",         \* the hook point of the invocation
      key |-> NoKey,        \* its lockKey
      awaiting |-> 0,       \* keyWait: the caller whose promise is awaited
      waitTime |-> 0,       \* waitForFreeSlot's waitTime
      timedOut |-> FALSE,   \* the pending task started after waitForFreeSlot gave up
      waited |-> FALSE,     \* the invocation has been in waitForFreeSlot
      hookRuns |-> 0,       \* times the hook of this invocation was started
      out |-> "",           \* the outcome of the hook
      handled |-> FALSE,    \* the hook's failure was given to errorHandler.handleError
      ret |-> NoReturn ]    \* what the invocation returned

\* enabled, with hooks at some points only and tool-specific hooks for "calc"
ISome == InterceptorConfig(TRUE, FALSE, TRUE, TRUE, FALSE, {"calc"}, {"calc"})
LockConfigs == {IAll, IOff, ISome}

LockInit ==
    /\ toolMap = Registry(RegisteredNames)
    /\ icfg \in LockConfigs
    /\ bcfg = BOff
    /\ messages = UserInput
    /\ node = "Model"
    /\ runStatus = "running"
    /\ modelCalls = 0
    /\ batch = "idle"
    /\ tasks = <<>>
    /\ allToolMessages = <<>>
    /\ idCounter = 0
    /\ regOps = 0
    /\ finalState = <<>>
    /\ executionLocks = {}
    /\ activeTasks = {}
    /\ callers = [c \in Callers |-> IdleCaller]
    /\ BreakIdle
    /\ ErrIdle
    /\ RegIdle
    /\ TelIdle
    /\ ExtIdle

LockFrame ==
    UNCHANGED <<toolMap, icfg, bcfg, messages, node, runStatus, modelCalls, batch,
                tasks, allToolMessages, regOps, finalState, sideVars>>

\* mutant: waitForFreeSlot without its timeout
slotWaitGoesOn_NoTimeout(size, waitTime) == size >= concurrencyLimit

\* the loop condition of waitForFreeSlot
slotWaitGoesOn(size, waitTime) ==
    size >= concurrencyLimit /\ waitTime < maxWaitTime

\* executeWithLock up to the hook's first suspension, then executionLocks.set
startTask(cs, c) ==
    /\ activeTasks' = activeTasks \cup {cs[c].key}
    /\ executionLocks' = locksSet(executionLocks, cs[c].key, c)
    /\ callers' = [cs EXCEPT ![c].pc = "running", ![c].hookRuns = @ + 1]

\* acquireLock from its concurrency check on
slotCheck(cs, c) ==
    IF Cardinality(activeTasks) >= concurrencyLimit
    THEN IF slotWaitGoesOn(Cardinality(activeTasks), 0)
         THEN /\ callers' = [cs EXCEPT ![c].pc = "slotWait", ![c].waitTime = 0,
                                       ![c].waited = TRUE]
              /\ UNCHANGED <<activeTasks, executionLocks>>
         ELSE /\ callers' = [cs EXCEPT ![c].pc = "slotDone", ![c].timedOut = TRUE]
              /\ UNCHANGED <<activeTasks, executionLocks>>
    ELSE startTask(cs, c)

\* mutant: other callers run between the end of the wait and the start of
\* the task
ResumePending_Never == FALSE

\* waitForFreeSlot has left its loop in the continuation of a timer callback;
\* its return and the rest of acquireLock follow as microtasks of the same
\* callback, before any other callback or continuation runs
ResumePending == \E d \in Callers : callers[d].pc = "slotDone"

\* an intercept* method is called: the fast path, or acquireLock up to its
\* first suspension.  Callers arrive in the order of their ids.
Call(c) ==
    /\ callers[c].pc = "idle"
    /\ ~ResumePending
    /\ \A d \in Callers : d < c => callers[d].pc # "idle"
    /\ \E point \in Points :
         LET in  == CallerInput
             k   == lockKey(point, in.toolCall, idCounter)
             cs  == [callers EXCEPT ![c].point = point, ![c].key = k]
         IN  IF ~hookRegistered(icfg, point, in.toolCall.name)
             THEN /\ callers' = [callers EXCEPT
                                   ![c].point = point, ![c].pc = "done",
                                   ![c].ret = interceptTask(icfg, point, in, "pass")]
                  /\ UNCHANGED <<activeTasks, executionLocks, idCounter>>
             ELSE /\ idCounter' = IF lockKeyDrawsId(point, in.toolCall)
                                  THEN NextIdCounter(idCounter) ELSE idCounter
                  /\ IF locksHas(executionLocks, k)
                     THEN /\ callers' = [cs EXCEPT ![c].pc = "keyWait",
                                            ![c].awaiting = locksGet(executionLocks, k)]
                          /\ UNCHANGED <<activeTasks, executionLocks>>
                     ELSE slotCheck(cs, c)
    /\ LockFrame

\* the promise awaited under the key has settled: acquireLock goes on
KeyWaitResume(c) ==
    /\ callers[c].pc = "keyWait"
    /\ ~ResumePending
    /\ callers[callers[c].awaiting].pc = "done"
    /\ slotCheck([callers EXCEPT ![c].awaiting = 0], c)
    /\ UNCHANGED idCounter
    /\ LockFrame

\* a timer of waitForFreeSlot fires
Poll(c) ==
    /\ callers[c].pc = "slotWait"
    /\ ~ResumePending
    /\ LET w == IF callers[c].waitTime + checkInterval > maxWaitTime
                THEN maxWaitTime ELSE callers[c].waitTime + checkInterval
       IN  IF slotWaitGoesOn(Cardinality(activeTasks), w)
           THEN callers' = [callers EXCEPT ![c].waitTime = w]
           ELSE callers' = [callers EXCEPT ![c].waitTime = 0, ![c].pc = "slotDone",
                                           ![c].timedOut = (w >= maxWaitTime)]
    /\ UNCHANGED <<activeTasks, executionLocks, idCounter>>
    /\ LockFrame

\* waitForFreeSlot has returned: acquireLock starts the task
SlotResume(c) ==
    /\ callers[c].pc = "slotDone"
    /\ startTask(callers, c)
    /\ UNCHANGED idCounter
    /\ LockFrame

\* the hook settles: the finally of executeWithLock, then that of acquireLock
Settle(c) ==
    /\ callers[c].pc = "running"
    /\ ~ResumePending
    /\ \E o \in PointOutcomes(callers[c].point) :
         callers' = [callers EXCEPT
                       ![c].pc = "done", ![c].out = o, ![c].timedOut = FALSE,
                       ![c].handled = (o = "throw" /\ wrapsAsync(callers[c].point)),
                       ![c].ret = interceptTask(icfg, callers[c].point, CallerInput, o)]
    /\ activeTasks' = activeTasks \ {callers[c].key}
    /\ executionLocks' = locksDelete(executionLocks, callers[c].key)
    /\ UNCHANGED idCounter
    /\ LockFrame

LockNext ==
    \E c \in Callers :
        \/ Call(c)
        \/ KeyWaitResume(c)
        \/ Poll(c)
        \/ SlotResume(c)
        \/ Settle(c)

LockSpec == LockInit /\ [][LockNext]_vars

\* the event loop runs every due timer and every continuation of a settled
\* promise; a hook need not ever settle and a caller need not ever arrive
LockFairness ==
    \A c \in Callers :
        /\ WF_vars(KeyWaitResume(c))
        /\ WF_vars(Poll(c))
        /\ WF_vars(SlotResume(c))

FairLockSpec == LockSpec /\ LockFairness

----------------------------------------------------------------------------
(* Properties of the InterceptorManager under concurrent callers *)

\* the input of the stage, as the point's method received it
StageInput(point, in) ==
    CASE point \in {"core-before-model", "core-after-complete"} -> in.messages
      [] point \in {"global-before-tool", "specific-before-tool"} ->
            [kind |-> "cont", shortCircuit |-> FALSE,
             modifiedInput |-> in.toolCall, result |-> Undefined]
      [] OTHER -> in.result

Executing(c) == callers[c].pc = "running"

\* C8: at each of the six hook points, when the registered hook throws, the
\* invocation returns normally and its value is the stage's original input
\* (for the before-tool stages: a non-short-circuit result that carries the
\* incoming tool call).
C8_FailOpen ==
    \A c \in Callers :
        (callers[c].pc = "done" /\ callers[c].out = "throw") =>
            /\ ~callers[c].ret.raised
            /\ callers[c].ret.value = StageInput(callers[c].point, CallerInput)

\* hooks have thrown at a core point, a before-tool point and an after-tool
\* point, and a hook that did not throw had its changed value returned
C8_Witness ==
    /\ \E c \in Callers : /\ callers[c].pc = "done" /\ callers[c].out = "throw"
                          /\ callers[c].point = "core-before-model"
    /\ \E c \in Callers : /\ callers[c].pc = "done" /\ callers[c].out = "throw"
                          /\ callers[c].point = "specific-before-tool"
    /\ \E c \in Callers : /\ callers[c].pc = "done" /\ callers[c].out = "throw"
                          /\ callers[c].point = "global-after-tool"

\* C9: no two hook tasks registered under the same key are executing at the
\* same time.
C9_MutualExclusion ==
    \A c, d \in Callers :
        (c # d /\ Executing(c) /\ Executing(d)) => callers[c].key # callers[d].key

\* C10: the hook of an invocation is started at most once, an invocation that
\* has got past the lock of its key has started it exactly once, and an
\* invocation that polls for a free slot gets to start its hook whether or
\* not a slot is ever freed.
C10_HookRunsOnce ==
    /\ [](\A c \in Callers :
            /\ callers[c].hookRuns <= 1
            /\ callers[c].pc \in {"idle", "keyWait", "slotWait", "slotDone"}
                  => callers[c].hookRuns = 0
            /\ callers[c].pc = "running" => callers[c].hookRuns = 1
            /\ (callers[c].pc = "done"
                  /\ hookRegistered(icfg, callers[c].point, CallerInput.toolCall.name))
                  => callers[c].hookRuns = 1)
    /\ \A c \in Callers :
            (callers[c].pc \in {"slotWait", "slotDone"}) ~> (callers[c].hookRuns = 1)

\* a caller gave up waiting for a slot and runs its hook while the task that
\* saturated the limit is still executing
C10_Witness ==
    \E c, d \in Callers :
        /\ c # d
        /\ callers[c].timedOut /\ Executing(c) /\ callers[c].hookRuns = 1
        /\ Executing(d) /\ callers[d].key # callers[c].key
        /\ Cardinality(activeTasks) > concurrencyLimit

----------------------------------------------------------------------------
(* BreakSpec: the BreakpointManager under concurrent callers.  A breaker   *)
(* is one invocation of a break* method.  Time is counted in ticks of      *)
(* timeout / TimeoutTicks milliseconds; the timer of a race fires before   *)
(* the clock passes its deadline.                                          *)

tickMs == timeout \div TimeoutTicks

Breakers == 1..NBreakers

BreakPoints == {"global-before-tool", "global-after-tool"}
BreakCalls == {c1, c2}

\* the key of a tool-level break* method
breakKey(point, toolCall) ==
    [point |-> point, name |-> toolCall.name, id |-> toolCall.id]

\* is a hook enabled and registered for this point
breakRegistered(cfg, point) ==
    IF point = "global-before-tool" THEN breaksGlobalBefore(cfg) ELSE breaksGlobalAfter(cfg)

IdleBreaker ==
    [ pc |-> "idle",        \* idle, waiting (in the race), unwinding, returned
      key |-> NoKey,        \* the key while the invocation holds it, or was refused it
      started |-> NoKey,    \* the key under which its hook was started, if it was
      hook |-> "none",      \* none (never started), pending, done, failed
      elapsed |-> 0,        \* ticks since the hook was started, while in the race
      skipped |-> "no",     \* no, off (fast path), limit, dup
      timedOut |-> FALSE,
      raised |-> FALSE ]    \* the invocation rejected instead of returning

\* the state of the other components, which the managers do not touch
RunIdle ==
    /\ toolMap = Registry(RegisteredNames)
    /\ icfg = IOff
    /\ messages = UserInput
    /\ node = "Model"
    /\ runStatus = "running"
    /\ modelCalls = 0
    /\ batch = "idle"
    /\ tasks = <<>>
    /\ allToolMessages = <<>>
    /\ idCounter = 0
    /\ regOps = 0
    /\ finalState = <<>>

BreakInit ==
    /\ RunIdle
    /\ bcfg \in {BAll, BOff}
    /\ LockIdle
    /\ executionQueue = {}
    /\ concurrentBreakpoints = {}
    /\ breakers = [c \in Breakers |-> IdleBreaker]
    /\ ErrIdle
    /\ RegIdle
    /\ TelIdle
    /\ ExtIdle

BreakFrame == UNCHANGED <<runVars, lockVars, errVars, regVars, telVars, extVars>>

\* mutant: enqueueBreakpoint without its concurrency check
atLimit_Never(active) == FALSE

\* enqueueBreakpoint: the concurrency check
atLimit(active) == Cardinality(active) >= maxConcurrentBreakpoints

\* mutant: enqueueBreakpoint without its duplicate check
queued_Never(queue, key) == FALSE

\* enqueueBreakpoint: executionQueue.has(key)
queued(queue, key) == key \in queue

\* mutant: the race has no timer
timerDue_Never(elapsed) == FALSE

\* executeBreakpoint: the timer of the race has fired
timerDue(elapsed) == elapsed >= TimeoutTicks

\* mutant: the slot is kept for as long as the hook runs
raceOver_HoldsSlot(active, key, hook) == IF hook = "pending" THEN active ELSE active \ {key}

\* executeBreakpoint: finally { this.concurrentBreakpoints.delete(key) }, run
\* when the race is over, whatever has become of the hook
raceOver(active, key, hook) == active \ {key}

\* getActiveBreakpointCount()
getActiveBreakpointCount(active) == Cardinality(active)

\* executeBreakpoint: what the invocation hands its caller for each way the
\* race ends (the hook resolved, the hook rejected, the timer rejected)
raceReturn(how) == [raised |-> FALSE]

\* a break* method is called: the fast path, a skip, or the hook is started
BreakCall(c) ==
    /\ breakers[c].pc = "idle"
    /\ \A d \in Breakers : d < c => breakers[d].pc # "idle"
    /\ \E point \in BreakPoints, call \in BreakCalls :
         LET k == breakKey(point, call) IN
         IF ~breakRegistered(bcfg, point)
         THEN /\ breakers' = [breakers EXCEPT ![c].pc = "returned", ![c].skipped = "off"]
              /\ UNCHANGED <<executionQueue, concurrentBreakpoints>>
         ELSE IF atLimit(concurrentBreakpoints)
         THEN /\ breakers' = [breakers EXCEPT ![c].pc = "returned", ![c].skipped = "limit"]
              /\ UNCHANGED <<executionQueue, concurrentBreakpoints>>
         ELSE IF queued(executionQueue, k)
         THEN /\ breakers' = [breakers EXCEPT ![c].pc = "returned", ![c].key = k,
                                              ![c].skipped = "dup"]
              /\ UNCHANGED <<executionQueue, concurrentBreakpoints>>
         ELSE /\ breakers' = [breakers EXCEPT ![c].pc = "waiting", ![c].key = k,
                                              ![c].started = k,
                                              ![c].hook = "pending"]
              /\ concurrentBreakpoints' = concurrentBreakpoints \cup {k}
              /\ executionQueue' = executionQueue \cup {k}
    /\ BreakFrame

\* the hook settles.  While its invocation is in the race the race ends with
\* it: catch, then the finally of executeBreakpoint; after a timeout the hook
\* settles with nobody waiting for it.
HookSettle(c) ==
    /\ breakers[c].hook = "pending"
    /\ \E how \in {"done", "failed"} :
         IF breakers[c].pc = "waiting"
         THEN /\ breakers' = [breakers EXCEPT ![c].hook = how, ![c].pc = "unwinding",
                                              ![c].elapsed = 0, ![c].raised = raceReturn(how).raised]
              /\ concurrentBreakpoints' = raceOver(concurrentBreakpoints, breakers[c].key, how)
         ELSE /\ breakers' = [breakers EXCEPT ![c].hook = how]
              /\ UNCHANGED concurrentBreakpoints
    /\ UNCHANGED executionQueue
    /\ BreakFrame

\* the timer of the race fires first: catch, then the finally of
\* executeBreakpoint; the hook is left running
BreakTimeout(c) ==
    /\ breakers[c].pc = "waiting"
    /\ timerDue(breakers[c].elapsed)
    /\ breakers' = [breakers EXCEPT ![c].pc = "unwinding", ![c].timedOut = TRUE,
                                    ![c].elapsed = 0, ![c].raised = raceReturn("timeout").raised]
    /\ concurrentBreakpoints' = raceOver(concurrentBreakpoints, breakers[c].key,
                                         breakers[c].hook)
    /\ UNCHANGED executionQueue
    /\ BreakFrame

\* enqueueBreakpoint resumes after its await: finally, executionQueue.delete
BreakUnwind(c) ==
    /\ breakers[c].pc = "unwinding"
    /\ breakers' = [breakers EXCEPT ![c].pc = "returned", ![c].key = NoKey]
    /\ executionQueue' = executionQueue \ {breakers[c].key}
    /\ UNCHANGED concurrentBreakpoints
    /\ BreakFrame

\* the clock advances by one tick while no timer is due and no continuation
\* is ready to run
BreakTick ==
    /\ \E c \in Breakers : breakers[c].pc = "waiting"
    /\ \A c \in Breakers :
         /\ breakers[c].pc = "waiting" => breakers[c].elapsed < TimeoutTicks
         /\ breakers[c].pc # "unwinding"
    /\ breakers' = [c \in Breakers |->
                      IF breakers[c].pc = "waiting"
                      THEN [breakers[c] EXCEPT !.elapsed = @ + 1] ELSE breakers[c]]
    /\ UNCHANGED <<executionQueue, concurrentBreakpoints>>
    /\ BreakFrame

BreakNext ==
    \/ \E c \in Breakers :
        \/ BreakCall(c)
        \/ HookSettle(c)
        \/ BreakTimeout(c)
        \/ BreakUnwind(c)
    \/ BreakTick

BreakSpec == BreakInit /\ [][BreakNext]_vars

\* the event loop runs due timers and the continuations of settled promises,
\* and time passes; a hook need not ever settle
BreakFairness ==
    /\ WF_vars(BreakTick)
    /\ \A c \in Breakers : WF_vars(BreakTimeout(c)) /\ WF_vars(BreakUnwind(c))

FairBreakSpec == BreakSpec /\ BreakFairness

----------------------------------------------------------------------------
(* Properties of the BreakpointManager *)

InQueue(c) == breakers[c].pc \in {"waiting", "unwinding"}
BreakCalled(c) == breakers[c].pc = "idle" /\ breakers'[c].pc # "idle"

\* C11: an invocation made while the active breakpoint count is at the limit
\* returns in the same step without raising and leaves both collections as
\* they were; the hook of a skipped invocation is never started; the active
\* breakpoint count never exceeds the limit.
C11_SkipAtLimit ==
    /\ [](/\ Cardinality(concurrentBreakpoints) <= maxConcurrentBreakpoints
          /\ \A c \in Breakers :
                breakers[c].skipped # "no" =>
                    (breakers[c].hook = "none" /\ ~breakers[c].raised
                       /\ breakers[c].pc = "returned"))
    /\ [][\A c \in Breakers :
            (BreakCalled(c)
               /\ Cardinality(concurrentBreakpoints) = maxConcurrentBreakpoints) =>
                /\ breakers'[c].pc = "returned"
                /\ breakers'[c].skipped \in {"limit", "off"}
                /\ UNCHANGED <<concurrentBreakpoints, executionQueue>>]_vars

\* an invocation was skipped at the limit and the count is still at the limit
C11_Witness ==
    /\ Cardinality(concurrentBreakpoints) = maxConcurrentBreakpoints
    /\ \E c \in Breakers :
         breakers[c].skipped = "limit" /\ breakers[c].pc = "returned"

\* C12: an invocation whose key is in the execution queue returns in the same
\* step, its hook never started; no two invocations hold one key in the queue.
C12_DuplicateSkipped ==
    /\ [](\A c, d \in Breakers :
            (c # d /\ InQueue(c) /\ InQueue(d)) => breakers[c].key # breakers[d].key)
    /\ [][\A c \in Breakers :
            (BreakCalled(c) /\ breakers'[c].key \in executionQueue) =>
                /\ breakers'[c].pc = "returned"
                /\ breakers'[c].skipped = "dup"
                /\ breakers'[c].hook = "none"
                /\ UNCHANGED <<concurrentBreakpoints, executionQueue>>]_vars

\* an invocation was skipped as a duplicate of one that is still in its race
C12_Witness ==
    \E c, d \in Breakers :
        /\ breakers[c].skipped = "dup" /\ breakers[c].pc = "returned"
        /\ breakers[d].pc = "waiting" /\ breakers[d].key = breakers[c].key

\* C13: an invocation in its race has waited at most the timeout, whether or
\* not its hook ever settles it returns, it never raises, and a timeout
\* leaves the hook running.
C13_SoftTimeout ==
    /\ [](\A c \in Breakers :
            /\ breakers[c].pc = "waiting" => breakers[c].elapsed * tickMs <= timeout
            /\ ~breakers[c].raised)
    /\ [][\A c \in Breakers :
            (breakers'[c].timedOut /\ ~breakers[c].timedOut) =>
                (breakers[c].hook = "pending" /\ breakers'[c].hook = "pending")]_vars
    /\ \A c \in Breakers :
            (breakers[c].pc = "waiting") ~> (breakers[c].pc = "returned")

\* an invocation returned on timeout and its hook completed afterwards; another
\* returned although its hook failed
C13_Witness ==
    /\ \E c \in Breakers :
         breakers[c].timedOut /\ breakers[c].pc = "returned" /\ breakers[c].hook = "done"
    /\ \E c \in Breakers :
         ~breakers[c].timedOut /\ breakers[c].pc = "returned" /\ breakers[c].hook = "failed"

----------------------------------------------------------------------------
(* Key isolation between the calls of one batch *)

ToolPoints == Points \ {"core-before-model", "core-after-complete"}

\* two calls of the running batch to one tool name, each with its own id
Siblings(i, j) ==
    /\ i # j
    /\ tasks[i].call.name = tasks[j].call.name
    /\ tasks[i].call.id # NoId /\ tasks[j].call.id # NoId
    /\ tasks[i].call.id # tasks[j].call.id

----------------------------------------------------------------------------
(* ErrSpec: the ErrorHandler.  Error records are ReAgentError objects or   *)
(* plain Errors; a context is a function from the keys of ErrorContext to  *)
(* <<>> (no such property) or <<value>>.                                   *)

errTickMs == similarErrorWindow \div WindowTicks

\* a reading of Date.now() at construction: later than one window after the epoch
StartTime == 2 * similarErrorWindow

CtxKeys == {"component", "operation", "attempt", "maxRetries", "originalError",
            "timestamp", "stackTrace"}
Absent == <<>>
NoContext == [k \in CtxKeys |-> Absent]

\* the object spread { ...a, ...b }
spread(a, b) == [k \in CtxKeys |-> IF b[k] # Absent THEN b[k] ELSE a[k]]

\* new ReAgentError(...): the constructor stamps the context it is given
ReAgentError(message, type, severity, context, code, retryable, t, stack) ==
    [ class |-> "ReAgentError", name |-> "ReAgentError", message |-> message,
      type |-> type, severity |-> severity,
      context |-> [context EXCEPT !["timestamp"] = <<t>>, !["stackTrace"] = <<stack>>],
      code |-> code, retryable |-> retryable, timestamp |-> t ]

\* a plain Error (the fields of ReAgentError it lacks are left empty)
PlainError(name, message) ==
    [ class |-> "Error", name |-> name, message |-> message,
      type |-> "", severity |-> "", context |-> NoContext,
      code |-> Absent, retryable |-> FALSE, timestamp |-> 0 ]

\* mutant: the supplied context replaces the context of the error
handleErrorRecord_DropsContext(error, context, t) ==
    ReAgentError(error.message, IF error.class = "ReAgentError" THEN error.type ELSE "RUNTIME",
                 IF error.class = "ReAgentError" THEN error.severity ELSE "MEDIUM",
                 context, error.code, error.retryable, t, "at handleError")

\* handleError: the record it builds
handleErrorRecord(error, context, t) ==
    IF error.class = "ReAgentError"
    THEN ReAgentError(error.message, error.type, error.severity,
                      spread(error.context, context), error.code, error.retryable,
                      t, "at handleError")
    ELSE ReAgentError(error.message, "RUNTIME", "MEDIUM",
                      spread(context, [NoContext EXCEPT !["originalError"] = <<error.name>>]),
                      Absent, FALSE, t, "at handleError")

errorKey(error) == <<error.type, error.message>>

\* mutant: suppression starts one occurrence late
overThreshold_Late(count) == count > maxSimilarErrors

overThreshold(count) == count >= maxSimilarErrors

\* mutant: the count of a key never expires
shouldSuppressDuplicateError_NoExpiry(counts, last, key, t) ==
    LET lastTime == last[key]
        count    == counts[key]
    IN  IF t - lastTime < similarErrorWindow /\ overThreshold(count)
        THEN [suppress |-> TRUE, counts |-> counts, last |-> last]
        ELSE [suppress |-> FALSE,
              last   |-> [last EXCEPT ![key] = t],
              counts |-> [counts EXCEPT ![key] = count + 1]]

\* shouldSuppressDuplicateError: the verdict and the two maps afterwards
shouldSuppressDuplicateError(counts, last, key, t) ==
    LET lastTime == last[key]
        count    == counts[key]
    IN  IF t - lastTime < similarErrorWindow /\ overThreshold(count)
        THEN [suppress |-> TRUE, counts |-> counts, last |-> last]
        ELSE [suppress |-> FALSE,
              last   |-> [last EXCEPT ![key] = t],
              counts |-> [counts EXCEPT ![key] =
                            IF t - lastTime > similarErrorWindow THEN 1 ELSE count + 1]]

\* errors raised somewhere in the program before they reach the handler
eNet == ReAgentError("down", "NETWORK", "HIGH",
                     [NoContext EXCEPT !["component"] = <<"llm">>, !["operation"] = <<"invoke">>],
                     <<"E_NET">>, TRUE, StartTime - 1, "at origin")
eVal == ReAgentError("bad input", "VALIDATION", "LOW", NoContext,
                     Absent, FALSE, StartTime - 1, "at origin")
pErr == PlainError("TypeError", "down")

ErrorInputs == {eNet, pErr}
SuppliedContexts ==
    {NoContext,
     [NoContext EXCEPT !["component"] = <<"engine">>, !["timestamp"] = <<7>>]}

ErrKeys == {errorKey(handleErrorRecord(e, NoContext, 0)) : e \in {eNet, eVal, pErr}}

NoStats == [handled |-> 0, logged |-> 0, forwarded |-> 0, suppressed |-> 0, first |-> 0]

RetryIdle ==
    [ pc |-> "idle",        \* idle, attempting, sleeping, returned, threw
      runs |-> 0,           \* calls of retry begun so far
      maxRetries |-> 0,
      attempt |-> 0,        \* the loop variable
      calls |-> 0,          \* invocations of the operation
      currentDelay |-> 0,
      delays |-> <<>>,      \* the delays slept so far
      lastThrown |-> pErr,  \* what the last invocation threw
      allRetryable |-> TRUE,\* every invocation so far threw a retryable error
      raised |-> "none",    \* none, classified, unclassified
      error |-> pErr ]      \* the error raised

ErrInit ==
    /\ RunIdle
    /\ bcfg = BOff
    /\ LockIdle
    /\ BreakIdle
    /\ errorCounts = [k \in ErrKeys |-> 0]
    /\ lastErrors = [k \in ErrKeys |-> 0]
    /\ now = StartTime
    /\ errStats = [k \in ErrKeys |-> NoStats]
    /\ lastHandled = [called |-> FALSE, in |-> pErr, ctx |-> NoContext,
                      out |-> pErr, inAfter |-> pErr]
    /\ retry = RetryIdle
    /\ RegIdle
    /\ TelIdle
    /\ ExtIdle

ErrFrame == UNCHANGED <<runVars, lockVars, breakVars, regVars, telVars, extVars>>

Handled == errStats[<<"NETWORK", "down">>].handled + errStats[<<"RUNTIME", "down">>].handled
             + errStats[<<"VALIDATION", "bad input">>].handled

\* handleError from the duplicate check on: the maps and what is logged and
\* forwarded to the performance monitor
recordError(out) ==
    LET key == errorKey(out)
        d   == shouldSuppressDuplicateError(errorCounts, lastErrors, key, now)
        st  == errStats[key]
    IN  /\ errorCounts' = d.counts
        /\ lastErrors' = d.last
        /\ errStats' = [errStats EXCEPT ![key] =
              [ handled    |-> st.handled + 1,
                logged     |-> st.logged + (IF d.suppress THEN 0 ELSE 1),
                forwarded  |-> st.forwarded + (IF d.suppress THEN 0 ELSE 1),
                suppressed |-> st.suppressed + (IF d.suppress THEN 1 ELSE 0),
                first      |-> IF st.handled = 0 THEN now ELSE st.first ]]

\* handleError(error, context) is called
HandleError ==
    /\ Handled < MaxHandled
    /\ \E e \in ErrorInputs, ctx \in SuppliedContexts :
         LET out == handleErrorRecord(e, ctx, now) IN
         /\ recordError(out)
         /\ lastHandled' = [called |-> TRUE, in |-> e, ctx |-> ctx, out |-> out,
                            inAfter |-> e]
    /\ UNCHANGED <<now, retry>>
    /\ ErrFrame

\* the clock advances
ErrTick ==
    /\ now - StartTime < MaxTicks * errTickMs
    /\ now' = now + errTickMs
    /\ UNCHANGED <<errorCounts, lastErrors, errStats, lastHandled, retry>>
    /\ ErrFrame

ErrNext == HandleError \/ ErrTick

ErrSpec == ErrInit /\ [][ErrNext]_vars

----------------------------------------------------------------------------
(* RetrySpec: one call of ErrorHandler.retry.  The operation succeeds or   *)
(* throws one of the errors above at each invocation.                      *)

RetryContext == [NoContext EXCEPT !["operation"] = <<"fetch">>]

\* the context retry hands to handleError for the attempt with this index
attemptContext(attempt, maxRetries) ==
    spread(RetryContext, [NoContext EXCEPT !["attempt"] = <<attempt + 1>>,
                                           !["maxRetries"] = <<maxRetries>>])

\* handleError(null): reading error.message raises a TypeError
NullDereference == PlainError("TypeError", "Cannot read properties of null")

Thrown == {eNet, eVal, pErr}

RetryInit ==
    /\ RunIdle
    /\ bcfg = BOff
    /\ LockIdle
    /\ BreakIdle
    /\ errorCounts = [k \in ErrKeys |-> 0]
    /\ lastErrors = [k \in ErrKeys |-> 0]
    /\ now = StartTime
    /\ errStats = [k \in ErrKeys |-> NoStats]
    /\ lastHandled = [called |-> FALSE, in |-> pErr, ctx |-> NoContext,
                      out |-> pErr, inAfter |-> pErr]
    /\ retry = RetryIdle
    /\ RegIdle
    /\ TelIdle
    /\ ExtIdle

\* retry(fn, context, maxRetries) is called: the loop is entered, or skipped
\* and handleError(lastError) is called with lastError still null
RetryCall ==
    /\ retry.pc = "idle"
    /\ retry.runs < MaxRetryRuns
    /\ \E m \in 0..MaxRetries :
         IF 0 < m
         THEN retry' = [retry EXCEPT !.pc = "attempting", !.maxRetries = m,
                                     !.runs = @ + 1,
                                     !.currentDelay = delayMs]
         ELSE retry' = [retry EXCEPT !.pc = "threw", !.maxRetries = m,
                                     !.runs = @ + 1,
                                     !.currentDelay = delayMs,
                                     !.raised = "unclassified", !.error = NullDereference]
    /\ UNCHANGED <<errorCounts, lastErrors, now, errStats, lastHandled>>
    /\ ErrFrame

\* mutant: the attempt before the last one is taken for the last
lastAttempt_Early(attempt, maxRetries) == attempt >= maxRetries - 2

\* retry: attempt === maxRetries - 1
lastAttempt(attempt, maxRetries) == attempt = maxRetries - 1

\* the operation is invoked once and returns
RetrySucceed ==
    /\ retry.pc = "attempting"
    /\ retry' = [retry EXCEPT !.pc = "returned", !.calls = @ + 1, !.allRetryable = FALSE]
    /\ UNCHANGED <<errorCounts, lastErrors, now, errStats, lastHandled>>
    /\ ErrFrame

\* the operation is invoked once and throws: the catch block of the loop
RetryFail ==
    /\ retry.pc = "attempting"
    /\ \E e \in Thrown :
         LET ctx == attemptContext(retry.attempt, retry.maxRetries)
             out == handleErrorRecord(e, ctx, now)
         IN  /\ recordError(out)
             /\ lastHandled' = [called |-> TRUE, in |-> e, ctx |-> ctx, out |-> out,
                                inAfter |-> e]
             /\ IF lastAttempt(retry.attempt, retry.maxRetries) \/ ~out.retryable
                THEN retry' = [retry EXCEPT !.pc = "threw", !.calls = @ + 1,
                                 !.lastThrown = e, !.raised = "classified",
                                 !.error = out,
                                 !.allRetryable = @ /\ out.retryable]
                ELSE retry' = [retry EXCEPT !.pc = "sleeping", !.calls = @ + 1,
                                 !.lastThrown = e,
                                 !.delays = Append(@, retry.currentDelay)]
    /\ UNCHANGED now
    /\ ErrFrame

\* the delay has passed: the next turn of the loop, or past its end the
\* final handleError(lastError, context)
RetryWake ==
    /\ retry.pc = "sleeping"
    /\ now' = now + retry.currentDelay
    /\ IF retry.attempt + 1 < retry.maxRetries
       THEN /\ retry' = [retry EXCEPT !.pc = "attempting", !.attempt = @ + 1,
                            !.currentDelay = @ * backoffMultiplier]
            /\ UNCHANGED <<errorCounts, lastErrors, errStats, lastHandled>>
       ELSE LET out == handleErrorRecord(retry.lastThrown, RetryContext, now') IN
            /\ retry' = [retry EXCEPT !.pc = "threw", !.attempt = @ + 1,
                            !.currentDelay = @ * backoffMultiplier,
                            !.raised = "classified", !.error = out]
            /\ LET key == errorKey(out)
                   d   == shouldSuppressDuplicateError(errorCounts, lastErrors, key, now')
               IN  /\ errorCounts' = d.counts
                   /\ lastErrors' = d.last
                   /\ errStats' = [errStats EXCEPT ![key].handled = @ + 1]
            /\ lastHandled' = [called |-> TRUE, in |-> retry.lastThrown,
                               ctx |-> RetryContext, out |-> out,
                               inAfter |-> retry.lastThrown]
    /\ ErrFrame

\* the caller has the outcome of retry and is free to call it again
RetryDone ==
    /\ retry.pc \in {"returned", "threw"}
    /\ retry' = [RetryIdle EXCEPT !.runs = retry.runs]
    /\ UNCHANGED <<errorCounts, lastErrors, now, errStats, lastHandled>>
    /\ ErrFrame

RetryNext == RetryCall \/ RetrySucceed \/ RetryFail \/ RetryWake \/ RetryDone

RetrySpec == RetryInit /\ [][RetryNext]_vars

----------------------------------------------------------------------------
(* Properties of the ErrorHandler *)

Min(a, b) == IF a <= b THEN a ELSE b

\* C16: while every occurrence of a (kind, message) key so far lies within
\* one window of the first, exactly the first maxSimilarErrors occurrences
\* were logged and forwarded and every further one was suppressed, whatever
\* happened under the other keys.
C16_Dedup ==
    \A key \in ErrKeys :
        LET st == errStats[key] IN
        (st.handled > 0 /\ now - st.first < similarErrorWindow) =>
            /\ st.logged = Min(st.handled, maxSimilarErrors)
            /\ st.forwarded = st.logged
            /\ st.suppressed = st.handled - st.logged

\* 11 occurrences of one key within a window: 10 forwarded, 1 suppressed,
\* and an error of another kind with the same message was logged
C16_Witness ==
    LET a == errStats[<<"RUNTIME", "down">>]
        b == errStats[<<"NETWORK", "down">>]
    IN  /\ a.handled = 11 /\ a.logged = 10 /\ a.forwarded = 10 /\ a.suppressed = 1
        /\ now - a.first < similarErrorWindow
        /\ b.handled = 1 /\ b.logged = 1

\* what handleError keeps of a typed error
SameIdentity(in, out) ==
    /\ out.class = "ReAgentError"
    /\ out.type = in.type /\ out.severity = in.severity /\ out.message = in.message
    /\ out.code = in.code /\ out.retryable = in.retryable

RuntimeMedium(in, out) ==
    /\ out.class = "ReAgentError"
    /\ out.type = "RUNTIME" /\ out.severity = "MEDIUM" /\ out.message = in.message
    /\ ~out.retryable

\* C17 as stated: the record given is left as it was; the result of a typed
\* error has its kind, severity, message, code and retryable flag, and its
\* context is the old context overridden by the supplied one; the result of
\* a plain error is Runtime/Medium and not retryable.
C17_ContextMerged ==
    lastHandled.called =>
        LET in == lastHandled.in  out == lastHandled.out IN
        /\ lastHandled.inAfter = in
        /\ IF in.class = "ReAgentError"
           THEN SameIdentity(in, out) /\ out.context = spread(in.context, lastHandled.ctx)
           ELSE RuntimeMedium(in, out)

StampedKeys == {"timestamp", "stackTrace"}

\* C17 amended: as stated, except that the context of the result is the old
\* context overridden by the supplied one on every key but timestamp and
\* stackTrace, which the constructor sets anew whatever the two contexts hold.
C17_Handle ==
    lastHandled.called =>
        LET in == lastHandled.in  out == lastHandled.out
            merged == IF in.class = "ReAgentError"
                      THEN spread(in.context, lastHandled.ctx)
                      ELSE [lastHandled.ctx EXCEPT !["originalError"] = <<in.name>>]
        IN
        /\ lastHandled.inAfter = in
        /\ IF in.class = "ReAgentError" THEN SameIdentity(in, out) ELSE RuntimeMedium(in, out)
        /\ \A k \in CtxKeys \ StampedKeys : out.context[k] = merged[k]
        /\ out.context["timestamp"] = <<out.timestamp>>
        /\ out.context["stackTrace"] = <<"at handleError">>

\* a typed error carrying a context was handled with a context that overrides
\* one of its entries and supplies a timestamp
C17_Witness ==
    /\ lastHandled.called
    /\ lastHandled.in = eNet
    /\ lastHandled.ctx["component"] = <<"engine">>
    /\ lastHandled.out.context["component"] = <<"engine">>
    /\ lastHandled.out.context["operation"] = <<"invoke">>
    /\ lastHandled.out.context["timestamp"] # lastHandled.ctx["timestamp"]

----------------------------------------------------------------------------
(* Properties of ErrorHandler.retry *)

RetryEnded == retry.pc \in {"returned", "threw"}

\* the sum of the delays slept after n failed attempts is delayMs * (2^n - 1)
RECURSIVE Backoff(_)
Backoff(n) == IF n = 0 THEN <<>> ELSE Append(Backoff(n - 1), delayMs * backoffMultiplier ^ (n - 1))

\* C15: with maxRetries >= 1 the operation is invoked at most maxRetries
\* times; the loop goes on only while every attempt so far threw a retryable
\* error, so it is invoked exactly maxRetries times when all of them do and
\* it stops at the first attempt that succeeds or throws a non-retryable
\* error (a plain error is classified non-retryable); a retry that does not
\* succeed raises the classified record of what the last attempt threw.
C15_Retry ==
    retry.maxRetries >= 1 =>
      /\ retry.calls <= retry.maxRetries
      /\ retry.pc = "attempting" => retry.allRetryable /\ retry.calls = retry.attempt
      /\ retry.pc = "sleeping" => retry.allRetryable /\ retry.calls = retry.attempt + 1
      /\ retry.pc \in {"attempting", "sleeping"} => retry.delays = Backoff(Len(retry.delays))
      /\ retry.pc = "returned" => retry.raised = "none"
      /\ retry.pc = "threw" =>
           /\ retry.allRetryable => retry.calls = retry.maxRetries
           /\ retry.calls < retry.maxRetries =>
                retry.lastThrown = eVal \/ retry.lastThrown.class = "Error"
           /\ Len(retry.delays) = retry.calls - 1
           /\ retry.raised = "classified"
           /\ retry.error.class = "ReAgentError"
           /\ retry.error.message = retry.lastThrown.message
           /\ retry.error.retryable =
                (retry.lastThrown.class = "ReAgentError" /\ retry.lastThrown.retryable)
           /\ retry.lastThrown.class = "ReAgentError" => SameIdentity(retry.lastThrown, retry.error)
           /\ retry.lastThrown.class = "Error" => RuntimeMedium(retry.lastThrown, retry.error)
           /\ retry.error.context["attempt"] = <<retry.calls>>
      /\ retry.pc = "sleeping" =>
           retry.lastThrown.class = "ReAgentError" /\ retry.lastThrown.retryable

\* retry(fn, ctx, 3) has invoked an always failing operation three times
C15_Witness ==
    /\ retry.pc = "threw"
    /\ retry.maxRetries = 3
    /\ retry.calls = 3
    /\ retry.allRetryable
    /\ retry.error.type = "NETWORK"

----------------------------------------------------------------------------
(* Properties of run when no final state is reached *)

\* the run is over and the workflow never reached End
EndedShortOfEnd == runStatus # "running" /\ node # "End"

\* C20: a run whose invocation never yields a terminal state snapshot returns
\* null to its caller without throwing, increments the run-failure counter
\* and applies no after-complete hook.
C20_NullWithoutThrowing ==
    EndedShortOfEnd =>
      /\ runStatus = "returned"
      /\ finalState = NullState
      /\ counters["agent.run.failure"] = 1
      /\ counters["agent.run.success"] = 0
      /\ afterCompleteCalls = 0

\* the else branch of run on its own: the stream ended with finalState null
C20_NullBranch ==
    (runStatus = "returned" /\ node # "End") =>
      /\ finalState = NullState
      /\ counters["agent.run.failure"] = 1
      /\ counters["agent.run.success"] = 0
      /\ afterCompleteCalls = 0

----------------------------------------------------------------------------
(* RegSpec: the registry operations of ReAgentBuilder, called one after    *)
(* the other (none of them suspends), and the partition of a batch by      *)
(* executeTools, which reads the registry.                                 *)

RegTools == {Tool(n, v) : n \in RegisteredNames, v \in 1..NVersions}

tCalc == Tool("calc", 1)
tSearch == Tool("search", 1)

\* the lists handed to setTool
ToolLists ==
    { <<>>, <<tCalc>>, <<tSearch, tCalc>>, <<tCalc, Tool("calc", NVersions)>>,
      <<NamelessTool>>, <<NamelessTool, tSearch>> }

\* the batches executeTools partitions
RegBatches == { <<c1, cS>>, <<cG, cS>> }

RegInit ==
    /\ \E tools \in {<<>>, <<tCalc, tSearch>>} :
         /\ toolMap = setEach(Registry({}), tools)
         /\ regLog = [base |-> toolMap, adds |-> <<>>]
    /\ icfg = IOff
    /\ bcfg = BOff
    /\ messages = UserInput
    /\ node = "Model"
    /\ runStatus = "running"
    /\ modelCalls = 0
    /\ batch = "idle"
    /\ tasks = <<>>
    /\ allToolMessages = <<>>
    /\ idCounter = 0
    /\ regOps = 0
    /\ finalState = <<>>
    /\ LockIdle
    /\ BreakIdle
    /\ ErrIdle
    /\ regView = NoView
    /\ TelIdle
    /\ ExtIdle

RegFrame ==
    UNCHANGED <<icfg, bcfg, messages, node, runStatus, modelCalls, batch, tasks,
                allToolMessages, idCounter, finalState, lockVars, breakVars, errVars,
                telVars, extVars>>

\* addTool(tool)
AddTool ==
    /\ regOps < MaxRegCalls
    /\ \E tool \in RegTools \cup {NamelessTool} :
         IF tool.name = ""
         THEN /\ regView' = [op |-> "add", given |-> <<tool>>, result |-> <<>>,
                             raised |-> TRUE, warned |-> "no"]
              /\ UNCHANGED <<toolMap, regLog>>
         ELSE /\ toolMap' = addTool(toolMap, tool)
              /\ regLog' = [regLog EXCEPT !.adds = Append(@, tool)]
              /\ regView' = [op |-> "add", given |-> <<tool>>, result |-> <<>>,
                             raised |-> FALSE,
                             warned |-> IF has(toolMap, tool.name) THEN "overwrite" ELSE "no"]
    /\ regOps' = regOps + 1
    /\ RegFrame

\* setTool(tools)
SetToolList ==
    /\ regOps < MaxRegCalls
    /\ \E tools \in ToolLists :
         /\ toolMap' = setTool(toolMap, tools)
         /\ regLog' = [base |-> toolMap', adds |-> <<>>]
         /\ regView' = [op |-> "set", given |-> tools, result |-> <<>>, raised |-> FALSE,
                        warned |-> IF getAllTools(toolMap') = {} THEN "empty" ELSE "no"]
    /\ regOps' = regOps + 1
    /\ RegFrame

\* getTool(toolName)
GetTool ==
    /\ \E name \in RegisteredNames \cup {GhostName} :
         regView' = [op |-> "get", given |-> <<name>>, result |-> getTool(toolMap, name),
                     raised |-> FALSE, warned |-> "no"]
    /\ UNCHANGED <<toolMap, regLog, regOps>>
    /\ RegFrame

\* getTool()
GetAllTools ==
    /\ regView' = [op |-> "getAll", given |-> <<>>, result |-> getAllTools(toolMap),
                   raised |-> FALSE, warned |-> "no"]
    /\ UNCHANGED <<toolMap, regLog, regOps>>
    /\ RegFrame

\* executeTools: the partition of the tool calls of a batch
Partition ==
    /\ \E b \in RegBatches :
         regView' = [op |-> "partition", given |-> b,
                     result |-> validPositions(b, toolMap),
                     raised |-> FALSE, warned |-> "no"]
    /\ UNCHANGED <<toolMap, regLog, regOps>>
    /\ RegFrame

RegNext == AddTool \/ SetToolList \/ GetTool \/ GetAllTools \/ Partition

RegSpec == RegInit /\ [][RegNext]_vars

----------------------------------------------------------------------------
(* Properties of the registry *)

\* the version of the last tool of the sequence with this name, 0 if none
RECURSIVE LastNamed(_, _)
LastNamed(tools, name) ==
    IF tools = <<>> THEN 0
    ELSE IF tools[Len(tools)].name = name THEN tools[Len(tools)].ver
    ELSE LastNamed(SubSeq(tools, 1, Len(tools) - 1), name)

Range(seq) == {seq[i] : i \in 1..Len(seq)}

\* what the registry should hold under a name: the last tool added under
\* it, or what the last complete replacement left
Expected(name) ==
    IF LastNamed(regLog.adds, name) # 0 THEN LastNamed(regLog.adds, name)
    ELSE regLog.base[name]

ExpectedTools == {Tool(n, Expected(n)) : n \in {m \in RegisteredNames : Expected(m) # 0}}

Unique(tools) == \A i, j \in 1..Len(tools) : tools[i].name = tools[j].name => i = j

\* C18: after any sequence of addTool calls the registry holds, for each
\* name added, exactly the last tool added under it (and otherwise what it
\* held before); getTool() returns exactly those tools, getTool(name) the
\* matching one and nothing for a name never added; when the names added to
\* an empty registry are unique, getTool() returns exactly the tools added.
C18_LastAddedWins ==
    /\ \A n \in RegisteredNames : toolMap[n] = Expected(n)
    /\ regView.op = "getAll" =>
         /\ regView.result = ExpectedTools
         /\ \A t, u \in regView.result : t.name = u.name => t = u
         /\ (getAllTools(regLog.base) = {} /\ Unique(regLog.adds))
              => regView.result = Range(regLog.adds)
    /\ regView.op = "get" =>
         LET name == regView.given[1] IN
         /\ name \in RegisteredNames /\ Expected(name) # 0
              => regView.result = <<Tool(name, Expected(name))>>
         /\ (name \notin RegisteredNames \/ Expected(name) = 0) => regView.result = <<>>

\* two tools were added under one name and another under a second name, and
\* getTool() was called
C18_Witness ==
    /\ regView.op = "getAll"
    /\ getAllTools(regLog.base) = {}
    /\ regLog.adds = <<tCalc, Tool("calc", 2), tSearch>>
    /\ regView.result = {Tool("calc", 2), tSearch}

\* the named tools of a list, the last one of each name
NamedTools(tools) ==
    {Tool(n, LastNamed(tools, n)) : n \in {m \in RegisteredNames : LastNamed(tools, m) # 0}}

\* C19: setTool(list) leaves in the registry exactly the named tools of
\* list, whatever it held before, and no reader or batch sees anything but
\* the result of complete registry calls; setTool([]) leaves the registry
\* empty and logs the warning, and a batch partitioned after it (with no
\* tool added since) has no known call.
C19_SetAll ==
    /\ regView.op = "set" =>
         /\ getAllTools(toolMap) = NamedTools(regView.given)
         /\ regView.warned = "empty" <=> NamedTools(regView.given) = {}
         /\ regView.given = <<>> => getAllTools(toolMap) = {} /\ regView.warned = "empty"
    /\ regView.op = "partition" =>
         /\ regView.result = {i \in 1..Len(regView.given) :
                                 regView.given[i].name \in {t.name : t \in ExpectedTools}}
         /\ (getAllTools(regLog.base) = {} /\ regLog.adds = <<>>) => regView.result = {}
    /\ regView.op = "getAll" => regView.result = ExpectedTools

\* setTool([]) was called on a registry holding tools, then a batch was
\* partitioned
C19_Witness ==
    /\ regView.op = "partition"
    /\ regOps = 1
    /\ regLog.adds = <<>>
    /\ getAllTools(toolMap) = {}
    /\ regView.given = <<c1, cS>>
    /\ regView.result = {}

----------------------------------------------------------------------------
(* CtorSpec: calls of the constructor of ReAgentBuilder, one after the     *)
(* other, in one process (perfMonitor is shared by all agents).            *)

\* an AgentConfig: is it given at all, has it a name, what is its llm (none,
\* a BaseChatModel instance, an LLMConfig the factory accepts or rejects),
\* and does it carry interceptors and breakpoints
\* (concurrency: the number given for both pipelines, 0 when none is)
AgentConfig(given, name, llm, interceptors, breakpoints, concurrency) ==
    [given |-> given, name |-> name, llm |-> llm, interceptors |-> interceptors,
     breakpoints |-> breakpoints, concurrency |-> concurrency]

NullConfig == AgentConfig(FALSE, FALSE, "none", FALSE, FALSE, 0)

\* config.concurrency?.interceptors || 10, config.concurrency?.breakpoints || 5
interceptorConcurrency(cfg) ==
    IF cfg.concurrency # 0 THEN cfg.concurrency ELSE defaultInterceptorConcurrency
breakpointConcurrency(cfg) ==
    IF cfg.concurrency # 0 THEN cfg.concurrency ELSE defaultBreakpointConcurrency

AgentConfigs ==
    {NullConfig} \cup
    {AgentConfig(TRUE, n, l, i, b, c) :
        n \in BOOLEAN, l \in {"none", "instance", "valid", "invalid"},
        i \in BOOLEAN, b \in BOOLEAN, c \in {0, 3}}

ConfigurationError(severity) ==
    [class |-> "ReAgentError", type |-> "CONFIGURATION", severity |-> severity]
FactoryError == [class |-> "Error", type |-> "", severity |-> ""]
NoError == <<>>

\* mutant: the constructor without its check of config.llm
configError_LlmUnchecked(cfg) ==
    IF ~cfg.given THEN ConfigurationError("CRITICAL")
    ELSE IF ~cfg.name THEN ConfigurationError("HIGH")
    ELSE NoError

\* the three checks that open the constructor
configError(cfg) ==
    IF ~cfg.given THEN ConfigurationError("CRITICAL")
    ELSE IF ~cfg.name THEN ConfigurationError("HIGH")
    ELSE IF cfg.llm = "none" THEN ConfigurationError("CRITICAL")
    ELSE NoError

\* initializeLLM: LLMFactory.create throws on a configuration it rejects
llmFails(cfg) == cfg.llm \in {"none", "invalid"}

CtorInit ==
    /\ RunIdle
    /\ bcfg = BOff
    /\ LockIdle
    /\ BreakIdle
    /\ ErrIdle
    /\ RegIdle
    /\ TelIdle
    /\ ExtIdle

\* new ReAgentBuilder(config)
Construct ==
    /\ perf.created < MaxAgents
    /\ \E cfg \in AgentConfigs :
         LET base == [NoCtor EXCEPT !.cfg = cfg, !.perfBefore = perf] IN
         IF configError(cfg) # NoError
         THEN /\ ctor' = [base EXCEPT !.pc = "threw", !.error = configError(cfg)]
              /\ UNCHANGED perf
         ELSE IF llmFails(cfg)
         THEN /\ ctor' = [base EXCEPT !.pc = "threw", !.error = FactoryError,
                                      !.interceptorManager = TRUE,
                                      !.breakpointManager = TRUE,
                                      !.limits = <<interceptorConcurrency(cfg),
                                                   breakpointConcurrency(cfg)>>]
              /\ UNCHANGED perf
         ELSE /\ ctor' = [base EXCEPT !.pc = "built", !.interceptorManager = TRUE,
                                      !.breakpointManager = TRUE,
                                      !.limits = <<interceptorConcurrency(cfg),
                                                   breakpointConcurrency(cfg)>>,
                                      !.llm = TRUE,
                                      !.tools = TRUE, !.workflow = TRUE]
              /\ perf' = [monitoring |-> TRUE, created |-> perf.created + 1]
    /\ UNCHANGED <<runVars, lockVars, breakVars, errVars, regVars, telVars, mem,
                   forwardedAt, timing, systemPrompt>>

CtorNext == Construct

CtorSpec == CtorInit /\ [][CtorNext]_vars

(* Properties of the constructor *)

\* C21: constructing the agent without a name or without a model
\* configuration throws a Configuration error and leaves nothing behind: no
\* hook pipeline is created, monitoring is not started and agent.created is
\* not incremented.
C21_FailsClean ==
    (ctor.pc # "none" /\ (~ctor.cfg.name \/ ctor.cfg.llm = "none")) =>
      /\ ctor.pc = "threw"
      /\ ctor.error = ConfigurationError(ctor.error.severity)
      /\ ~ctor.interceptorManager /\ ~ctor.breakpointManager /\ ctor.limits = <<>>
      /\ ~ctor.llm /\ ~ctor.tools /\ ~ctor.workflow
      /\ perf = ctor.perfBefore

\* after an agent was built, a config with a name and no llm was rejected
C21_Witness ==
    /\ ctor.pc = "threw"
    /\ ctor.cfg.name /\ ctor.cfg.llm = "none"
    /\ ctor.cfg.interceptors
    /\ perf.created = 1 /\ perf.monitoring

----------------------------------------------------------------------------
(* Properties of the turn state *)

\* a step in which callModel returned a response
ModelReturned == node = "Model" /\ modelCalls' = modelCalls + 1 /\ runStatus' = "running"

Types(msgs) == [k \in 1..Len(msgs) |-> msgs[k].type]

\* C22: during a run the turn state only grows by appending: a Model step
\* appends exactly the response, a Tools step exactly as many tool messages
\* as the response had tool calls, and what was there stays in place; a run
\* with one tool round of one call and then a final answer ends with
\* human, ai, tool, ai.
C22_AppendOnly ==
    /\ [][ /\ IsPrefix(messages, messages')
           /\ ModelReturned =>
                /\ Len(messages') = Len(messages) + 1
                /\ Last(messages').type = "ai"
           /\ ToolsStep =>
                /\ Len(messages') = Len(messages) + Len(Last(messages).tool_calls)
                /\ \A k \in Len(messages) + 1 .. Len(messages') : messages'[k].type = "tool"
           /\ ~(ModelReturned \/ ToolsStep) => messages' = messages ]_vars
    /\ [](( /\ runStatus = "returned" /\ node = "End" /\ modelCalls = 2
            /\ Len(messages[2].tool_calls) = 1 )
           => Types(messages) = <<"human", "ai", "tool", "ai">>)

\* the run of the example: one tool round, then the final answer
C22_Witness ==
    /\ runStatus = "returned"
    /\ Len(messages) = 4
    /\ Types(messages) = <<"human", "ai", "tool", "ai">>
    /\ messages[2].tool_calls = <<c1>>
    /\ messages[3].tool_call_id = c1.id

----------------------------------------------------------------------------
(* Properties of the ids of a tool call *)

\* C23: for one tool call, every interceptor and breakpoint stage is keyed by
\* and sees the id the emitted result message carries, also when the call
\* came without an id (one id is generated and used at every stage) and when
\* an interceptor returned a modified input.
C23_OneIdPerCall ==
    \A i \in TaskIds :
        /\ \A k \in 1..Len(tasks[i].keys) :
             /\ tasks[i].keys[k].key = tasks[i].executionId
             /\ tasks[i].keys[k].seen = tasks[i].executionId
        /\ tasks[i].message # NoMessage =>
             tasks[i].message.tool_call_id = tasks[i].executionId

\* the same for the calls the model issued with an id, at every stage that
\* is handed the model's call (the tool-specific-before interceptor is handed
\* the call the global interceptor returned)
C23_GivenIdStable ==
    \A i \in TaskIds :
        tasks[i].call.id # NoId =>
            /\ \A k \in 1..Len(tasks[i].keys) :
                 tasks[i].keys[k].stage # "sbi" =>
                     /\ tasks[i].keys[k].key = tasks[i].call.id
                     /\ tasks[i].keys[k].seen = tasks[i].call.id
            /\ tasks[i].message # NoMessage =>
                 tasks[i].message.tool_call_id = tasks[i].call.id

(* Properties of the core hooks of a run *)

\* where a hook stands in a trace, 0 if it did not run
Pos(tr, hook) ==
    IF \E k \in 1..Len(tr) : tr[k].hook = hook
    THEN CHOOSE k \in 1..Len(tr) : tr[k].hook = hook
    ELSE 0
Times(tr, hook) == Cardinality({k \in 1..Len(tr) : tr[k].hook = hook})
ModelEntered == modelCalls' = modelCalls + 1

\* in the Model step just taken: interceptor, then core breakpoint, then one
\* invocation, then the after-model breakpoint, each handed what the one
\* before it produced
ModelStepInOrder ==
    LET tr == coreTrace'.model
        pI == Pos(tr, "interceptBeforeModelInvoke")
        pB == Pos(tr, "core.beforeModelInvoke")
        pV == Pos(tr, "invoke")
        pA == Pos(tr, "model.afterCall")
    IN  /\ Times(tr, "invoke") = 1
        /\ \A k \in 1..Len(tr) : Times(tr, tr[k].hook) = 1
        /\ pI # 0 => /\ pI < pV /\ tr[pV].saw = tr[pI].gave
                     /\ tr[pI].saw = withSystemPrompt(systemPrompt, messages)
        /\ pI = 0 => tr[pV].saw = withSystemPrompt(systemPrompt, messages)
        /\ pB # 0 => pI < pB /\ pB < pV /\ tr[pB].saw = tr[pV].saw
        /\ pA # 0 => /\ pV < pA
                     /\ tr[pA].saw = tr[pV].gave
                     /\ tr[pA].state = messages
                     /\ messages' = messages \o tr[pA].saw
        /\ pA = 0 /\ runStatus' = "running" => messages' = messages \o tr[pV].gave

\* the claim as written: nothing runs before the interceptor
InterceptorFirst ==
    LET pI == Pos(coreTrace'.model, "interceptBeforeModelInvoke")
    IN  pI # 0 => pI = 1

\* only the model-scope beforeCall breakpoint runs before the interceptor, and
\* it observes the state as it entered the step
OnlyBeforeCallPrecedes ==
    LET tr == coreTrace'.model
        pI == Pos(tr, "interceptBeforeModelInvoke")
    IN  \A k \in 1..Len(tr) :
            (pI # 0 /\ k < pI) \/ tr[k].hook = "model.beforeCall" =>
                k = 1 /\ tr[k].hook = "model.beforeCall" /\ tr[k].saw = messages

\* C25 as written: in each Model step the before-model interceptor runs
\* first, the before-model breakpoint observes the sequence the interceptor
\* returned, the model is invoked once with that sequence, and the after-model
\* breakpoint observes the raw response before it is appended.
C25_InterceptorFirst == [][ModelEntered => ModelStepInOrder /\ InterceptorFirst]_vars

\* C25, amended: in each Model step the before-model interceptor runs before
\* the core before-model breakpoint, preceded only by the model-scope
\* beforeCall breakpoint (which observes the unmodified state); the core
\* breakpoint observes the sequence the interceptor returned, the model is
\* invoked once with that sequence, and the after-model breakpoint observes
\* the raw response before it is appended.
C25_ModelStep == [][ModelEntered => ModelStepInOrder /\ OnlyBeforeCallPrecedes]_vars

\* a step in which all four hooks ran, the interceptor rewrote the sequence
\* and the response has been appended
C25_Witness ==
    LET tr == coreTrace.model IN
    /\ Len(tr) = 5
    /\ tr[2].hook = "interceptBeforeModelInvoke" /\ tr[2].gave # tr[2].saw
    /\ tr[3].hook = "core.beforeModelInvoke" /\ tr[3].saw = tr[2].gave
    /\ tr[5].hook = "model.afterCall"
    /\ runStatus = "running" /\ <<Last(messages)>> = tr[5].saw

\* C26: the after-complete hooks are applied once, only when the run has
\* reached End with a terminal state and never while the run is still going:
\* the interceptor receives the terminal state, the breakpoint observes what
\* the interceptor returned, and run returns that same state.
C26_AfterCompleteOnce ==
    LET tr == coreTrace.after
        pI == Pos(tr, "interceptAfterAgentComplete")
        pB == Pos(tr, "core.afterAgentComplete")
    IN  /\ afterCompleteCalls <= 1
        /\ afterCompleteCalls = 1 <=> (runStatus = "returned" /\ node = "End")
        /\ afterCompleteCalls = 0 => tr = <<>>
        /\ \A k \in 1..Len(tr) : Times(tr, tr[k].hook) = 1
        /\ pI # 0 => pI = 1 /\ tr[pI].saw = messages /\ finalState = tr[pI].gave
        /\ pB # 0 => pB = Len(tr) /\ tr[pB].saw = finalState
        /\ afterCompleteCalls = 1 =>
              /\ pI # 0 <=> interceptsAfterComplete(icfg)
              /\ pB # 0 <=> breaksCoreAfterComplete(bcfg)
              /\ pI = 0 => finalState = messages

\* a run with a tool round whose terminal state the interceptor rewrote
C26_Witness ==
    /\ runStatus = "returned" /\ node = "End" /\ toolCallsSoFar(messages) > 0
    /\ Len(coreTrace.after) = 2
    /\ coreTrace.after[1].gave # messages
    /\ coreTrace.after[2].saw = finalState /\ finalState = coreTrace.after[1].gave

(* Properties of interceptor hook failures (LockSpec) *)

HookThrew(c) == callers[c].pc = "done" /\ callers[c].out = "throw"

\* C27: every interceptor hook failure, at every hook point, is passed to the
\* error handler's handleError, so that it is counted there.
C27_EveryFailureHandled ==
    \A c \in Callers : HookThrew(c) => callers[c].handled

\* what the code does: only a failure of the core before-model hook is
\* passed on
C27_OnlyBeforeModelHandled ==
    \A c \in Callers :
        callers[c].handled <=> (HookThrew(c) /\ callers[c].point = "core-before-model")

(* Properties of duplicate suppression (ErrSpec) *)

\* the step is a handleError of the key that was suppressed / was not
Suppressed(key) == errStats'[key].suppressed = errStats[key].suppressed + 1
Forwarded(key)  == errStats'[key].forwarded = errStats[key].forwarded + 1

\* C28: an occurrence that is suppressed is still counted (the key's count
\* goes up by one) although it is neither logged nor forwarded.
C28_SuppressedStillCounted ==
    [][\A key \in ErrKeys :
          Suppressed(key) =>
              /\ errorCounts'[key] = errorCounts[key] + 1
              /\ errStats'[key].logged = errStats[key].logged
              /\ errStats'[key].forwarded = errStats[key].forwarded]_vars

\* what the code does: a suppressed occurrence leaves both maps as they were
C28_SuppressedNotCounted ==
    [][\A key \in ErrKeys :
          Suppressed(key) =>
              /\ errorCounts' = errorCounts /\ lastErrors' = lastErrors
              /\ errStats'[key].logged = errStats[key].logged
              /\ errStats'[key].forwarded = errStats[key].forwarded]_vars

\* C29: an occurrence handled more than one window after the last forwarded
\* occurrence of its key is logged and forwarded and sets the key's count to
\* 1; the count goes up by one with each further forwarded occurrence and an
\* occurrence is suppressed only at a count of maxSimilarErrors or more, so a
\* full threshold is forwarded again before the next suppression.
C29_WindowElapsed ==
    [][\A key \in ErrKeys :
          /\ (errStats'[key].handled = errStats[key].handled + 1
               /\ errStats[key].handled > 0
               /\ now - lastErrors[key] > similarErrorWindow) =>
                 /\ Forwarded(key)
                 /\ errStats'[key].logged = errStats[key].logged + 1
                 /\ errorCounts'[key] = 1
          /\ Forwarded(key) =>
                 /\ errorCounts'[key] \in {1, errorCounts[key] + 1}
                 /\ lastErrors'[key] = now
          /\ Suppressed(key) =>
                 /\ errorCounts[key] >= maxSimilarErrors
                 /\ now - lastErrors[key] < similarErrorWindow]_vars

\* a key that was suppressed and, after the window, forwarded again at count 1
C29_Witness ==
    \E key \in ErrKeys :
        /\ errStats[key].suppressed >= 1
        /\ errStats[key].forwarded = maxSimilarErrors + 1
        /\ errorCounts[key] = 1
        /\ lastErrors[key] = now
        /\ now - errStats[key].first > similarErrorWindow

(* Properties of the failure aggregation of a batch *)

\* C31: after a batch has settled the systemic-problem warning is logged if
\* and only if the failed calls, unknown-tool calls included, are more than
\* half of the calls of the batch, also when every call is unknown.
C31_WarnedIffMajorityFailed ==
    batchLog.total > 0 => (batchLog.warned <=> 2 * batchLog.failed > batchLog.total)

\* what the code does: the same, except that a batch without any known call
\* returns before the aggregation and logs no warning
C31_WarnedUnlessAllUnknown ==
    batchLog.total > 0 =>
        (batchLog.warned <=> /\ 2 * batchLog.failed > batchLog.total
                             /\ batchLog.errors > 0)

(* Properties of a batch whose tools are removed while it runs *)

\* task i is about to look its tool up, and the registry no longer holds it
LookupOfRemoved(i) ==
    /\ AtStage(i, "resolve") /\ tasks'[i].pc # "resolve"
    /\ tasks[i].final.kind # "undef" /\ ~useShortCircuit(tasks[i].final)
    /\ ~has(toolMap, tasks[i].call.name)

\* executeTools returns
JoinStep == batch = "running" /\ batch' = "idle"

\* C35: when the tool of a known call has been removed from the registry
\* between the partition of the batch and the lookup for that call, the call
\* resolves to one error message and nothing is thrown, no tool is invoked
\* for it, the other calls of the batch are left as they are, and the batch
\* returns exactly one message for every call.
C35_RemovedTool ==
    [][/\ \A i \in TaskIds :
            LookupOfRemoved(i) =>
                /\ tasks'[i].pc = "done" /\ tasks'[i].failed
                /\ tasks'[i].invoked = 0
                /\ tasks'[i].message =
                      ToolMessage(ErrorContent(tasks[i].call.name, "TypeError"),
                                  tasks[i].executionId)
                /\ runStatus' = "running"
                /\ \A k \in TaskIds : k # i => tasks'[k] = tasks[k]
       /\ JoinStep =>
            /\ runStatus' = "running"
            /\ Len(messages') = Len(messages) + Len(allToolMessages) + Len(tasks)
            /\ \A i \in TaskIds :
                 messages'[Len(messages) + Len(allToolMessages) + i] = tasks[i].message]_vars

\* the first call of a batch ran its tool, the registry was emptied, and the
\* second call resolved to the error message
C35_Witness ==
    /\ runStatus = "running" /\ batch = "running" /\ Len(tasks) = 2
    /\ regOps = 1 /\ ~has(toolMap, "calc")
    /\ tasks[1].pc = "done" /\ ~tasks[1].failed /\ tasks[1].invoked = 1
    /\ tasks[2].pc = "done" /\ tasks[2].failed /\ tasks[2].invoked = 0
    /\ tasks[2].message.content = ErrorContent("calc", "TypeError")
    /\ InTrace(tasks[2], "resolve")

(* Properties of a call that a before-tool interceptor modified *)

\* the call the before stage handed on differs from the model's call
Modified(t) ==
    /\ t.final.kind = "cont" /\ ~t.final.shortCircuit
    /\ t.final.modifiedInput \notin {t.call, UndefCall}

OriginalStages == {"gbb", "sbb", "sai", "sab", "gai", "gab"}

\* C36: when the before stage of a call hands on a modified tool call, the
\* tool invoked is the one registered under the name of the original call
\* and it is given the arguments of the modified call; every breakpoint and
\* every after-stage interceptor is handed the original call (its name and
\* its id), and the result message carries the id of the original call and,
\* where it names a tool, the original name.
C36_ModifiedCall ==
    \A i \in TaskIds :
        LET t == tasks[i]
        IN  Modified(t) =>
              /\ t.invoked > 0 =>
                    /\ t.invokedName = t.call.name
                    /\ t.invokedArgs = t.final.modifiedInput.args
              /\ \A k \in 1..Len(t.keys) :
                    t.keys[k].stage \in OriginalStages =>
                        /\ t.keys[k].name = t.call.name
                        /\ t.keys[k].seen = t.call.id
              /\ t.message # NoMessage =>
                    /\ t.message.tool_call_id = t.executionId
                    /\ t.call.id # NoId => t.message.tool_call_id = t.call.id
                    /\ t.failed => t.message.content[2] = t.call.name
                    /\ (~t.failed /\ t.message.content[1] = "result of") =>
                          t.message.content = ToolResult(t.call.name, 1, t.final.modifiedInput.args)

\* a call to calc that the global interceptor replaced by a call to search
\* with another id and other arguments went through every stage
C36_Witness ==
    \E i \in TaskIds :
        LET t == tasks[i]
        IN  /\ t.call = c1 /\ t.pc = "done" /\ ~t.failed
            /\ t.final.modifiedInput = Renamed(c1, "global")
            /\ t.invoked = 1 /\ t.invokedName = "calc" /\ t.invokedArgs = "global"
            /\ \E k \in 1..Len(t.keys) : t.keys[k].stage = "gab"
            /\ \E k \in 1..Len(t.keys) : t.keys[k].stage = "sbi" /\ t.keys[k].name = "search"
            /\ t.message = ToolMessage(ToolResult("calc", 1, "global"), c1.id)

(* Properties of a call whose tool throws *)

AfterStages == {"sai", "sab", "gai", "gab", "emit"}

\* the real tool was invoked for the call and threw
ToolThrew(t) == t.invoked > 0 /\ t.failed

\* C37: when the invocation of the real tool throws, the task is over: no
\* tool-specific-after or global-after interceptor or breakpoint of the call
\* has run or will run, the call is recorded once as a failure and not as a
\* success, and its result message is the error message.
C37_ToolThrows ==
    \A i \in TaskIds :
        LET t == tasks[i]
        IN  ToolThrew(t) =>
              /\ t.pc = "done"
              /\ \A k \in 1..Len(t.trace) : t.trace[k] \notin AfterStages
              /\ \A k \in 1..Len(t.keys) : t.keys[k].stage \notin AfterStages
              /\ t.failures = 1 /\ t.successes = 0
              /\ t.message = ToolMessage(ErrorContent(t.call.name, "tool failed"),
                                         t.executionId)

\* the tool threw for the second call of a batch with global after-stage
\* hooks registered, while the first call went through its after stage
C37_Witness ==
    /\ icfg = IAll /\ bcfg = BAll /\ Len(tasks) = 2
    /\ \E i \in TaskIds :
         /\ ToolThrew(tasks[i]) /\ tasks[i].call = c2
         /\ tasks[i].invoked = 1 /\ tasks[i].failures = 1
    /\ \E i \in TaskIds :
         /\ ~tasks[i].failed /\ tasks[i].successes = 1
         /\ InTrace(tasks[i], "gab")

(* Properties of what a Model step writes to the turn state *)

\* C38: a Model step changes the turn state only by appending the model's
\* response, or not at all when the invocation throws: neither the injected
\* system prompt nor what the before-model interceptor returned is written
\* to it, whatever sequence the model was sent.
C38_OnlyResponseAppended ==
    [][ModelEntered =>
         LET tr == coreTrace'.model
             pV == Pos(tr, "invoke")
         IN  /\ pV # 0
             /\ runStatus' = "running" =>
                  /\ Len(tr[pV].gave) = 1 /\ tr[pV].gave[1].type = "ai"
                  /\ messages' = messages \o tr[pV].gave
             /\ runStatus' # "running" => messages' = messages
             /\ ~hasSystemMessage(messages) => ~hasSystemMessage(messages')]_vars

\* the model was sent the system prompt and the interceptor's rewrite on top
\* of the state, and the state holds the input and the response only
C38_Witness ==
    LET tr == coreTrace.model
        pV == Pos(tr, "invoke")
        pI == Pos(tr, "interceptBeforeModelInvoke")
    IN  /\ systemPrompt # NoPrompt /\ runStatus = "running"
        /\ pV # 0 /\ pI # 0
        /\ tr[pI].saw = <<SystemMessage(systemPrompt)>> \o UserInput
        /\ tr[pI].gave # tr[pI].saw
        /\ tr[pV].saw = tr[pI].gave
        /\ messages = UserInput \o tr[pV].gave
        /\ ~hasSystemMessage(messages)

(* Properties of retry called with no attempts allowed (RetrySpec) *)

\* a call retry(fn, context, maxRetries) with maxRetries <= 0 has been made
ZeroRetries == retry.pc # "idle" /\ retry.maxRetries <= 0

\* C39: retry called with maxRetries <= 0 never invokes the operation and
\* ends by raising a classified error record, as every other unsuccessful
\* retry does; it returns no value and raises no unclassified error.
C39_ZeroRetriesClassified ==
    ZeroRetries =>
        /\ retry.calls = 0
        /\ retry.pc = "threw"
        /\ retry.raised = "classified"
        /\ retry.error.class = "ReAgentError"

\* what the code does: the operation is not invoked and no value is
\* returned, and the call fails with the TypeError of handleError(null)
C39_ZeroRetriesTypeError ==
    ZeroRetries =>
        /\ retry.calls = 0
        /\ retry.pc = "threw"
        /\ retry.raised = "unclassified"
        /\ retry.error = NullDereference

(* Properties of a breakpoint hook left running by a timeout (BreakSpec) *)

\* the invocation gave up waiting and its hook has not settled
Detached(c) == breakers[c].timedOut /\ breakers[c].hook = "pending"

\* the step in which a wait is abandoned: the hook runs on, the slot is free
TimedOutStep ==
    \A c \in Breakers :
        (breakers'[c].timedOut /\ ~breakers[c].timedOut) =>
            /\ breakers'[c].timedOut /\ breakers'[c].hook = "pending"
            /\ breakers[c].key \in concurrentBreakpoints
            /\ breakers[c].key \notin concurrentBreakpoints'
            /\ breakers'[c].pc = "unwinding"

\* no time passes between the timeout and the release of the key
NoTimeWhileUnwinding ==
    (\E c \in Breakers : Detached(c) /\ breakers[c].pc = "unwinding") =>
        \A d \in Breakers : breakers'[d].elapsed <= breakers[d].elapsed

\* an invocation under the key of a detached hook is admitted
AdmittedBesideDetached ==
    \A c, d \in Breakers :
        (/\ Detached(c) /\ breakers[c].pc = "returned"
         /\ BreakCalled(d) /\ breakers'[d].key = breakers[c].started
         /\ breakers[c].started \notin executionQueue) =>
            /\ breakers'[d].pc = "waiting" /\ breakers'[d].hook = "pending"
            /\ breakers'[d].started = breakers[c].started
            /\ breakers'[c].timedOut /\ breakers'[c].hook = "pending"

\* C40: when the wait for a breakpoint hook is abandoned on timeout, the
\* slot is released in that step and the key with the continuation that
\* follows, before any time passes, although the hook is still running; the
\* active count is the number of invocations still waiting and counts no
\* detached hook, and a later invocation under the key of a detached hook
\* that finds the manager below its limit is admitted and starts its hook.
C40_DetachedOnTimeout ==
    /\ [](/\ concurrentBreakpoints =
               {breakers[c].key : c \in {d \in Breakers : breakers[d].pc = "waiting"}}
          /\ executionQueue = {breakers[c].key : c \in {d \in Breakers : InQueue(d)}}
          /\ getActiveBreakpointCount(concurrentBreakpoints) =
               Cardinality({c \in Breakers : breakers[c].pc = "waiting"})
          /\ \A c \in Breakers :
               (Detached(c) /\ breakers[c].pc = "unwinding") => breakers[c].elapsed = 0)
    /\ [][TimedOutStep /\ NoTimeWhileUnwinding /\ AdmittedBesideDetached]_vars

\* two hooks run under one key: the first was left behind by a timeout, the
\* second was admitted after it, and only the second is counted
C40_Witness ==
    \E c, d \in Breakers :
        /\ c # d
        /\ Detached(c) /\ breakers[c].pc = "returned"
        /\ breakers[d].pc = "waiting" /\ breakers[d].hook = "pending"
        /\ breakers[d].started = breakers[c].started
        /\ getActiveBreakpointCount(concurrentBreakpoints) = 1

(* Properties of the fast path of the InterceptorManager (LockSpec) *)

\* the configuration holds no hook for the point (and, at a tool-specific
\* point, for the tool name)
NoHookAt(cfg, point, name) ==
    \/ point = "core-before-model" /\ ~cfg.hasCoreBeforeModel
    \/ point = "core-after-complete" /\ ~cfg.hasCoreAfterComplete
    \/ point = "global-before-tool" /\ ~cfg.hasGlobalBefore
    \/ point = "global-after-tool" /\ ~cfg.hasGlobalAfter
    \/ point = "specific-before-tool" /\ name \notin cfg.specBefore
    \/ point = "specific-after-tool" /\ name \notin cfg.specAfter

\* the input of the point, as the method hands it back when nothing ran
InputOf(point, in) ==
    CASE point \in {"core-before-model", "core-after-complete"} -> in.messages
      [] point \in {"global-before-tool", "specific-before-tool"} -> Continue(in.toolCall)
      [] OTHER -> in.result

\* C33: when the pipeline is disabled or holds no hook for the point (for a
\* tool-specific point: none for the tool name), the call returns its input
\* unchanged in the step in which it is made, runs no hook, and leaves the key
\* locks and the active-task set as they were.
C33_FastPath ==
    [][\A c \in Callers :
          (/\ callers[c].pc = "idle" /\ callers'[c].pc # "idle"
           /\ \/ ~icfg.enabled
              \/ NoHookAt(icfg, callers'[c].point, CallerInput.toolCall.name)) =>
              /\ callers'[c].pc = "done"
              /\ callers'[c].ret = [raised |-> FALSE,
                                    value |-> InputOf(callers'[c].point, CallerInput)]
              /\ callers'[c].hookRuns = 0
              /\ executionLocks' = executionLocks
              /\ activeTasks' = activeTasks
              /\ idCounter' = idCounter]_vars

\* a call on the fast path of an enabled pipeline, made while another
\* caller's hook is running
C33_Witness ==
    \E c, d \in Callers :
        /\ icfg.enabled
        /\ callers[c].pc = "done" /\ callers[c].hookRuns = 0
        /\ callers[c].point = "specific-before-tool"
        /\ callers[c].ret.value = Continue(CallerInput.toolCall)
        /\ callers[d].pc = "running"
        /\ activeTasks # {} /\ executionLocks # {}

(* Properties of the concurrency limit of the InterceptorManager (LockSpec) *)

\* no caller that is past the fast path has the key of another
KeysDistinct ==
    \A c, d \in Callers :
        (c # d /\ callers[c].key # NoKey /\ callers[d].key # NoKey) =>
            callers[c].key # callers[d].key

\* C34: as long as no slot wait has ended by timeout and no two tasks share
\* a key, the hook tasks executing at the same time are never more than the
\* configured limit.
C34_WithinLimit ==
    (KeysDistinct /\ \A c \in Callers : ~callers[c].timedOut) =>
        /\ Cardinality({c \in Callers : Executing(c)}) <= concurrencyLimit
        /\ Cardinality(activeTasks) <= concurrencyLimit

\* a caller that waited for a slot runs its hook after the task that held the
\* slot has settled, while a third caller with another key waits
C34_Witness ==
    \E c, d, e \in Callers :
        /\ KeysDistinct /\ \A x \in Callers : ~callers[x].timedOut
        /\ callers[d].pc = "done" /\ callers[d].hookRuns = 1
        /\ Executing(c) /\ callers[c].waited
        /\ callers[e].pc = "slotWait" /\ e # c
        /\ Cardinality(activeTasks) = concurrencyLimit

----------------------------------------------------------------------------
(* TimerSpec: the timers of the known calls of one batch.  The per-call    *)
(* tasks are created one after the other, each running up to its first     *)
(* await (startTimer included) before the next is created; they end in any *)
(* order.  perfMonitor is one object for the whole process.                *)

NTimed == 3
MaxClock == 3
TimedNames == {"calc", "search"}

\* timerName = `tool.${toolCall.name}`
timerName(name) == <<"tool", name>>

\* mutant: a timer of its own for every call
timerOf_PerCall(name, c) == <<"tool", name, c>>

\* the timer a call starts and ends
timerOf(name, c) == timerName(name)

\* startTimer(name): timer.start = now, whether the timer existed or not
startTimer(timers, name, t) ==
    [n \in DOMAIN timers \cup {name} |-> IF n = name THEN t ELSE timers[n]]

\* endTimer(name): now - timer.start, 0 when there is no such timer
endTimer(timers, name, t) == IF name \in DOMAIN timers THEN t - timers[name] ELSE 0

TimerInit ==
    /\ RunIdle /\ bcfg = BOff
    /\ LockIdle /\ BreakIdle /\ ErrIdle /\ RegIdle /\ TelIdle
    /\ ctor = NoCtor /\ perf = PerfIdle /\ mem = NoMem /\ forwardedAt = <<>>
    /\ systemPrompt = NoPrompt
    /\ \E names \in [1..NTimed -> TimedNames] :
         timing = [clock |-> 0, timers |-> <<>>,
                   calls |-> [c \in 1..NTimed |->
                                [name |-> names[c], pc |-> "new", began |-> 0,
                                 ended |-> 0, duration |-> 0]]]

TimerFrame ==
    UNCHANGED <<runVars, lockVars, breakVars, errVars, regVars, telVars, ctor, perf, mem,
                forwardedAt, systemPrompt>>

\* the task of call c is created and runs up to its first await
TimerStart(c) ==
    /\ timing.calls[c].pc = "new"
    /\ \A b \in 1..(c - 1) : timing.calls[b].pc # "new"
    /\ timing' = [timing EXCEPT
                    !.timers = startTimer(@, timerOf(timing.calls[c].name, c), timing.clock),
                    !.calls[c].pc = "running",
                    !.calls[c].began = timing.clock]
    /\ TimerFrame

\* the pipeline of call c has returned or thrown: endTimer(timerName)
TimerEnd(c) ==
    /\ timing.calls[c].pc = "running"
    /\ \A b \in 1..NTimed : timing.calls[b].pc # "new"
    /\ timing' = [timing EXCEPT
                    !.calls[c].pc = "ended",
                    !.calls[c].ended = timing.clock,
                    !.calls[c].duration =
                        endTimer(timing.timers, timerOf(timing.calls[c].name, c),
                                 timing.clock)]
    /\ TimerFrame

\* time passes
TimerTick ==
    /\ timing.clock < MaxClock
    /\ timing' = [timing EXCEPT !.clock = @ + 1]
    /\ TimerFrame

TimerNext == (\E c \in 1..NTimed : TimerStart(c) \/ TimerEnd(c)) \/ TimerTick

TimerSpec == TimerInit /\ [][TimerNext]_vars

(* Properties of the timers *)

\* C32: the duration recorded for a call is the time from that call's own
\* start to that call's own end, also when several calls to the same tool
\* name run at the same time.
C32_OwnDuration ==
    \A c \in 1..NTimed :
        timing.calls[c].pc = "ended" =>
            timing.calls[c].duration = timing.calls[c].ended - timing.calls[c].began

\* what the code does: the duration runs from the latest start of any call
\* to the same tool name
C32_SinceLatestStartOfName ==
    \A c \in 1..NTimed :
        timing.calls[c].pc = "ended" =>
            \E b \in 1..NTimed :
                /\ timing.calls[b].name = timing.calls[c].name
                /\ timing.calls[b].pc # "new"
                /\ timing.calls[b].began <= timing.calls[c].ended
                /\ timing.calls[c].duration = timing.calls[c].ended - timing.calls[b].began
                /\ timing.calls[b].began >= timing.calls[c].began

----------------------------------------------------------------------------
(* WinSpec: one failure mode repeating over several windows.  The same     *)
(* handleError as in ErrSpec, called with one error, and the times of the  *)
(* occurrences that were logged and forwarded.                             *)

MaxWinHandled == 11
MaxWinTicks == 4

WinInit ==
    /\ RunIdle
    /\ bcfg = BOff
    /\ LockIdle
    /\ BreakIdle
    /\ errorCounts = [k \in ErrKeys |-> 0]
    /\ lastErrors = [k \in ErrKeys |-> 0]
    /\ now = StartTime
    /\ errStats = [k \in ErrKeys |-> NoStats]
    /\ lastHandled = [called |-> FALSE, in |-> pErr, ctx |-> NoContext,
                      out |-> pErr, inAfter |-> pErr]
    /\ retry = RetryIdle
    /\ RegIdle
    /\ TelIdle
    /\ ctor = NoCtor /\ perf = PerfIdle /\ mem = NoMem /\ timing = NoTiming
    /\ systemPrompt = NoPrompt
    /\ forwardedAt = <<>>

WinFrame ==
    UNCHANGED <<runVars, lockVars, breakVars, regVars, telVars, ctor, perf, mem, timing,
                systemPrompt>>

\* handleError(eNet) is called
WinHandle ==
    /\ Handled < MaxWinHandled
    /\ LET out == handleErrorRecord(eNet, NoContext, now)
           d   == shouldSuppressDuplicateError(errorCounts, lastErrors, errorKey(out), now)
       IN  /\ recordError(out)
           /\ lastHandled' = [called |-> TRUE, in |-> eNet, ctx |-> NoContext, out |-> out,
                              inAfter |-> eNet]
           /\ forwardedAt' = IF d.suppress THEN forwardedAt ELSE Append(forwardedAt, now)
    /\ UNCHANGED <<now, retry>>
    /\ WinFrame

\* the clock advances
WinTick ==
    /\ now - StartTime < MaxWinTicks * errTickMs
    /\ now' = now + errTickMs
    /\ UNCHANGED <<errorCounts, lastErrors, errStats, lastHandled, retry, forwardedAt>>
    /\ WinFrame

WinNext == WinHandle \/ WinTick

WinSpec == WinInit /\ [][WinNext]_vars

(* Properties of the window *)

\* occurrences forwarded within one window length up to now
ForwardedInWindow ==
    Cardinality({k \in 1..Len(forwardedAt) : now - forwardedAt[k] <= similarErrorWindow})

\* C30: an occurrence is suppressed only if at least maxSimilarErrors
\* occurrences of its key were forwarded within the one window length before
\* it; occurrences spread over more than one window never add up to a
\* suppression.
C30_RollingWindow ==
    [][Suppressed(errorKey(eNet)) => ForwardedInWindow >= maxSimilarErrors]_vars

\* what the code does: an occurrence is suppressed when the key's count has
\* reached the threshold through occurrences each no more than one window
\* after the one before, and the last of them is less than a window old
C30_GapChain ==
    [][Suppressed(errorKey(eNet)) =>
          LET n == Len(forwardedAt) IN
          /\ n >= maxSimilarErrors
          /\ now - forwardedAt[n] < similarErrorWindow
          /\ \A k \in (n - maxSimilarErrors + 2)..n :
                 forwardedAt[k] - forwardedAt[k - 1] <= similarErrorWindow]_vars


----------------------------------------------------------------------------
(* MemSpec: the successive runs of one agent.  run compiles the workflow   *)
(* with a checkpointer of its own; a compiled graph with a checkpointer    *)
(* starts a thread from the checkpoint the checkpointer holds for it,      *)
(* folded with the input by the channel's reducer.                         *)

MaxRuns == 3
Threads == {"thread-1", "thread-2"}
MemInputs  == {<<HumanMessage(<<"q1">>)>>, <<HumanMessage(<<"q2">>)>>}
MemAnswers == {AIMessage(<<"a1">>, <<>>), AIMessage(<<"a2">>, <<>>)}

\* no checkpointer: checkpointer: undefined
NoSaver == <<"undefined">>
\* new MemorySaver(): no checkpoint for any thread
NewSaver == [t \in Threads |-> <<>>]

\* run: const memory = this.config.memory ? new MemorySaver() : undefined
checkpointer(memory) == IF memory THEN NewSaver ELSE NoSaver

\* the state a stream starts from
startState(saver, threadId, input) ==
    IF saver = NoSaver THEN input ELSE messagesReducer(saver[threadId], input)

MemInit ==
    /\ RunIdle /\ bcfg = BOff
    /\ LockIdle /\ BreakIdle /\ ErrIdle /\ RegIdle /\ TelIdle
    /\ ctor = NoCtor /\ perf = PerfIdle /\ forwardedAt = <<>> /\ timing = NoTiming
    /\ systemPrompt = NoPrompt
    /\ \E memory \in BOOLEAN : mem = [memory |-> memory, runs |-> <<>>]

\* one run to its end: the model answers once, without tool calls
MemRun ==
    /\ Len(mem.runs) < MaxRuns
    /\ \E threadId \in Threads, input \in MemInputs, answer \in MemAnswers :
         LET memory == checkpointer(mem.memory)
             start  == startState(memory, threadId, input)
             final  == messagesReducer(start, <<answer>>)
         IN  mem' = [mem EXCEPT !.runs = Append(@, [thread |-> threadId, input |-> input,
                                                   start |-> start, final |-> final])]
    /\ UNCHANGED <<runVars, lockVars, breakVars, errVars, regVars, telVars, ctor, perf,
                   forwardedAt, timing, systemPrompt>>

MemNext == MemRun

MemSpec == MemInit /\ [][MemNext]_vars

(* Properties of memory *)

\* the latest run before run k under the same thread identifier, 0 if none
PreviousRun(k) ==
    LET earlier == {j \in 1..(k - 1) : mem.runs[j].thread = mem.runs[k].thread}
    IN  IF earlier = {} THEN 0 ELSE CHOOSE j \in earlier : \A i \in earlier : i <= j

\* C24: with memory enabled a run under a thread identifier that an earlier
\* run used starts from the state that run left, followed by the new input;
\* with memory disabled, and for the first run of a thread, a run starts from
\* the caller's input only.
C24_MemoryRestores ==
    \A k \in 1..Len(mem.runs) :
        LET j == PreviousRun(k) IN
        mem.runs[k].start =
            IF mem.memory /\ j # 0
            THEN mem.runs[j].final \o mem.runs[k].input
            ELSE mem.runs[k].input

\* what the code does: every run starts from its input, memory or not
C24_EveryRunStartsAfresh ==
    \A k \in 1..Len(mem.runs) : mem.runs[k].start = mem.runs[k].input

==========================================================================
